---- MODULE Spec2Model ----
(***************************************************************************)
(* Model of one conversational turn of the agent engine                    *)
(* (src/app/services/agent_engine): the POST /chat route looks up the      *)
(* agent configuration, AgentEngine.chat creates an execution record, runs *)
(* the LangGraph graph node by node (smart_router, orchestrator, greet,    *)
(* optimized_rag, respond, validate_response, retry_respond, handoff) and  *)
(* persists the result.                                                    *)
(*                                                                         *)
(* Conventions                                                             *)
(*  - confidence and scores are integers in hundredths (0.4 is 40).        *)
(*  - money is an integer number of nano-dollars (1e-9 USD): a price of    *)
(*    0.25 USD per million tokens is 250 per token, and rounding to 8      *)
(*    decimals is rounding to a multiple of 10.                            *)
(*  - An outbound LLM call either returns or raises; a database scope      *)
(*    either succeeds ("ok"), has its statement raise ("exec_fail") or     *)
(*    cannot obtain a connection from the pool ("conn_fail").              *)
(*  - A node's returned partial update is merged into the turn state:      *)
(*    messages through the add_messages reducer, every other key           *)
(*    overwritten.  Keys read with state.get(key, default) before any node *)
(*    wrote them hold that default.  validation_passed, quality_score and  *)
(*    was_retried are returned by the validation nodes without being       *)
(*    declared in AgentState; they are merged like the declared keys.      *)
(*  - A node that raises returns no update: the graph run ends by          *)
(*    exception with the state as it was before the node.                  *)
(***************************************************************************)
EXTENDS Integers, Sequences, FiniteSets, TLC

VARIABLES
    msgPatterns,   \* pattern sets of OBVIOUS_PATTERNS with a keyword in the message
    agentConfig,   \* the business's row of ai.agent_config: missing, disabled, enabled,
                   \* or default_created once get_config has inserted the default row
    pc,            \* position of the request: request, rejected (the route answered
                   \* without calling the engine), idle, running, returned, raised
    http,          \* status code the route answered with (0 while there is none)
    node,          \* next graph node to run, or START / END / RAISED
    state,         \* the AgentState flowing through the graph
    execStatus,    \* ai.agent_executions.status of this turn's record ("none": no row)
    execWrites,    \* number of UPDATEs of the status column committed so far
    execError,     \* ai.agent_executions.error
    response,      \* the reply text Chat returned ("none" while there is none)
    metaHandoff,   \* metadata.handoff returned by Chat
    llmCalls,      \* outbound LLM calls of the turn, in order
    ragRows,       \* ai.rag_metrics rows written for the turn
    toolRows,      \* ai.tool_executions rows written for the turn
    llmRows,       \* ai.llm_calls rows written for the turn, in order
    tokenTracker,  \* TokenTrackerCallback.total_tokens of the turn: on_llm_end adds to
                   \* it for LangChain model runs, and no node of the graph makes one
                   \* (the nodes call the provider clients directly)
    execTokens,    \* ai.agent_executions.tokens_used
    execCost,      \* ai.agent_executions.cost
    faults,        \* database scopes of the request that did not succeed, by site
    deadlineExceeded, \* the turn has been running for longer than the turn deadline
    rag,           \* local data of the optimized_rag execution in progress: its queries,
                   \* the searches' results, the merged list, the metrics it will save
    tracker,       \* the LLMCallTracker scope followed on its own: its counters, the
                   \* exception its body raised, the exception it let through
    memory,        \* conversation memory: conversations.summary of the conversation, its
                   \* number of messages, what get_or_create_summary returned
    database       \* app.db.database: _connection_pool, _pool_lock, the connections
                   \* checked out of the pool, and the callers inside the module

vars == <<msgPatterns, agentConfig, pc, http, node, state, execStatus, execWrites,
          execError, response, metaHandoff, llmCalls, ragRows, toolRows, llmRows,
          tokenTracker, execTokens, execCost, faults, deadlineExceeded, rag,
          tracker, memory, database>>

\* What AgentEngine.chat and the graph nodes never write; the local data of
\* optimized_rag is followed only where the node is taken step by step (RagSpec),
\* a tracker scope only where it is taken on its own (TrackerSpec), the
\* conversation memory in SummarySpec, the database module in PoolSpec and ScopeSpec
envVars == <<msgPatterns, agentConfig, tokenTracker, rag, tracker, memory, database>>

----------------------------------------------------------------------------
\* Bounds and input domains

\* Largest number of chunks a retrieval step hands on
MaxDocs == 2

\* Confidence values the orchestrator's LLM may answer (hundredths)
ConfValues == {35, 40, 50, 60, 75, 90}

\* Outcomes of a database scope
DbOutcomes == {"ok", "exec_fail", "conn_fail"}

\* Execution statuses after which the record is settled
TerminalStatuses == {"completed", "failed", "handoff"}

\* Token usages a provider may report for one call
Usages == { [input_tokens |-> 1000, output_tokens |-> 500],
            [input_tokens |-> 3, output_tokens |-> 1] }

----------------------------------------------------------------------------
\* Smart router patterns (smart_router.py)

\* Keys of OBVIOUS_PATTERNS in dict (insertion) order
OBVIOUS_PATTERNS == <<"greeting", "farewell", "thanks", "request_human">>

RECURSIVE FirstMatch(_, _)
\* The for/break loop: first pattern set, in order, with a keyword in the message
FirstMatch(i, matched) ==
    IF i > Len(OBVIOUS_PATTERNS) THEN "None"
    ELSE IF OBVIOUS_PATTERNS[i] \in matched THEN OBVIOUS_PATTERNS[i]
    ELSE FirstMatch(i + 1, matched)

\* Mutant: the request for a human is tested before the other pattern sets
detected_intent_handoff_first(matched) ==
    IF "request_human" \in matched THEN "request_human" ELSE FirstMatch(1, matched)

\* smart_router.py lines 36-40: detected_intent after the loop
detected_intent(matched) == FirstMatch(1, matched)

----------------------------------------------------------------------------
\* Messages and the add_messages reducer (state.py)

HumanMessage(c) == [id |-> 0, type |-> "human", content |-> c]
AIMessage(c) == [id |-> 0, type |-> "ai", content |-> c]

RECURSIVE MaxId(_)
MaxId(ms) == IF ms = <<>> THEN 0
             ELSE LET r == MaxId(Tail(ms)) IN IF Head(ms).id > r THEN Head(ms).id ELSE r

\* Merge of one message: same id replaces in place, otherwise append with a fresh id
AddOne(left, m) ==
    IF m.id # 0 /\ \E i \in 1..Len(left) : left[i].id = m.id
    THEN LET i == CHOOSE j \in 1..Len(left) : left[j].id = m.id
         IN [left EXCEPT ![i] = m]
    ELSE Append(left, [m EXCEPT !.id = IF m.id = 0 THEN MaxId(left) + 1 ELSE m.id])

RECURSIVE add_messages(_, _)
add_messages(left, right) ==
    IF right = <<>> THEN left
    ELSE add_messages(AddOne(left, Head(right)), Tail(right))

SelectType(ms, t) == SelectSeq(ms, LAMBDA m : m.type = t)

Last(s) == s[Len(s)]

----------------------------------------------------------------------------
\* Initial turn state (state.py create_initial_state).  confidence is None there:
\* confidence_set records whether a node has written it (no node reads it before).
\* needs_knowledge_base and use_full_orchestrator, None there, hold the value their
\* readers' state.get defaults give; retrieved_docs is the number of documents
\* (None and the empty list are 0); search_queries, None there, is the empty list
\* (no node reads it).

\* Mutant: the turn starts from the conversation's earlier messages too
create_initial_state_with_history ==
    [ messages                    |-> add_messages(<<>>, <<HumanMessage("earlier_message"),
                                                          HumanMessage("user_message")>>),
      intent                      |-> "None",
      should_handoff              |-> FALSE,
      handoff_reason              |-> "None",
      is_first_message            |-> FALSE,
      confidence                  |-> 0,
      confidence_set              |-> FALSE,
      needs_knowledge_base        |-> FALSE,
      kb_search_strategy          |-> "None",
      search_queries              |-> <<>>,
      routing_decision            |-> "None",
      suggest_handoff_in_response |-> FALSE,
      use_full_orchestrator       |-> TRUE,
      retrieved_docs              |-> 0,
      validation_passed           |-> TRUE,
      was_retried                 |-> FALSE,
      quality_score               |-> 0,
      nodes_visited               |-> <<>> ]

create_initial_state ==
    [ messages                    |-> add_messages(<<>>, <<HumanMessage("user_message")>>),
      intent                      |-> "None",
      should_handoff              |-> FALSE,
      handoff_reason              |-> "None",
      is_first_message            |-> FALSE,
      confidence                  |-> 0,
      confidence_set              |-> FALSE,
      needs_knowledge_base        |-> FALSE,
      kb_search_strategy          |-> "None",
      search_queries              |-> <<>>,
      routing_decision            |-> "None",
      suggest_handoff_in_response |-> FALSE,
      use_full_orchestrator       |-> TRUE,
      retrieved_docs              |-> 0,
      validation_passed           |-> TRUE,
      was_retried                 |-> FALSE,
      quality_score               |-> 0,
      nodes_visited               |-> <<>> ]

Visit(s, n) == [s EXCEPT !.nodes_visited = Append(@, n)]

----------------------------------------------------------------------------
\* Nodes without I/O

\* smart_router.py smart_router_node: the planning fields of a fast path
FastPath(s, di) ==
    [s EXCEPT !.use_full_orchestrator = FALSE,
              !.intent = IF di = "greeting" THEN "greeting"
                         ELSE IF di = "request_human" THEN "request_human"
                         ELSE "other",
              !.confidence = 95,
              !.confidence_set = TRUE,
              !.needs_knowledge_base = FALSE,
              !.kb_search_strategy = "none",
              !.search_queries = <<>>,
              !.should_handoff = (di = "request_human"),
              !.handoff_reason = IF di = "request_human"
                                 THEN "Cliente solicito hablar con humano" ELSE "None",
              !.is_first_message = (Len(SelectType(s.messages, "human")) = 1),
              !.routing_decision = IF di = "greeting" THEN "fast_path_greeting"
                                   ELSE IF di = "farewell" THEN "fast_path_farewell"
                                   ELSE IF di = "thanks" THEN "fast_path_thanks"
                                   ELSE "fast_path_handoff"]

smart_router_node(s, matched) ==
    IF SelectType(s.messages, "human") = <<>>
    THEN Visit([s EXCEPT !.use_full_orchestrator = TRUE], "smart_router")
    ELSE IF detected_intent(matched) = "None"
    THEN Visit([s EXCEPT !.use_full_orchestrator = TRUE], "smart_router")
    ELSE Visit(FastPath(s, detected_intent(matched)), "smart_router")

\* greet.py greet_node
greet_node(s) ==
    IF Len(SelectType(s.messages, "human")) > 1
    THEN Visit(s, "greet")
    ELSE Visit([s EXCEPT !.messages = add_messages(@, <<AIMessage("greeting_text")>>)],
               "greet")

----------------------------------------------------------------------------
\* Conditional edges (graph.py)

\* Mutant: a fast path that asks for a human is sent to handoff
route_after_smart_router_handoff(s) ==
    IF ~s.use_full_orchestrator
    THEN (IF s.should_handoff THEN "handoff" ELSE "respond")
    ELSE "orchestrator"

\* graph.py route_after_smart_router, with the path map of add_conditional_edges
route_after_smart_router(s) ==
    IF ~s.use_full_orchestrator THEN "respond" ELSE "orchestrator"

\* Mutant: a first message is greeted before the knowledge base is searched
route_after_orchestrator_greet_first(s) ==
    IF s.should_handoff \/ s.confidence < 40 THEN "handoff"
    ELSE IF s.is_first_message THEN "greet"
    ELSE IF s.needs_knowledge_base THEN "optimized_rag"
    ELSE "respond"

\* Mutant: confidence of exactly 0.4 forces the handoff too
route_after_orchestrator_inclusive(s) ==
    IF s.should_handoff \/ s.confidence <= 40 THEN "handoff"
    ELSE IF s.needs_knowledge_base THEN "optimized_rag"
    ELSE IF s.is_first_message THEN "greet"
    ELSE "respond"

\* graph.py route_after_orchestrator, with the path map of add_conditional_edges.
\* Line 55 sets suggest_handoff_in_response on the router's argument when
\* 0.4 <= confidence < 0.6; respond_node reads the flag only outside that band, so
\* the assignment changes no prompt and is not carried in the state.
route_after_orchestrator(s) ==
    IF s.should_handoff \/ s.confidence < 40 THEN "handoff"
    ELSE IF s.needs_knowledge_base THEN "optimized_rag"
    ELSE IF s.is_first_message THEN "greet"
    ELSE "respond"

\* Mutant: only a confidence of 1.0 skips the validation
route_after_respond_always(s) ==
    IF s.confidence >= 100 THEN "END" ELSE "validate_response"

\* Mutant: confidence of exactly 0.75 is still validated
route_after_respond_strict(s) ==
    IF s.confidence > 75 THEN "END" ELSE "validate_response"

\* graph.py route_after_respond
route_after_respond(s) ==
    IF s.confidence >= 75 THEN "END" ELSE "validate_response"

\* graph.py route_after_validation
route_after_validation(s) ==
    IF s.was_retried THEN "END"
    ELSE IF s.validation_passed THEN "END"
    ELSE "retry_respond"

\* Mutant: the retried reply is sent back to validation
static_edge_revalidate(n) ==
    CASE n = "greet" -> "respond"
      [] n = "optimized_rag" -> "respond"
      [] n = "retry_respond" -> "validate_response"
      [] n = "handoff" -> "END"

\* Mutant: the retried turn goes back to the responder
static_edge_regenerate(n) ==
    CASE n = "greet" -> "respond"
      [] n = "optimized_rag" -> "respond"
      [] n = "retry_respond" -> "respond"
      [] n = "handoff" -> "END"

\* graph.py create_agent_graph: the unconditional edges
static_edge(n) ==
    CASE n = "greet" -> "respond"
      [] n = "optimized_rag" -> "respond"
      [] n = "retry_respond" -> "END"
      [] n = "handoff" -> "END"

----------------------------------------------------------------------------
\* Orchestrator (orchestrator.py)

\* The structured decisions the orchestrator's LLM may answer
Decisions ==
    [ intent : {"question", "complaint"},
      confidence : ConfValues,
      needs_knowledge_base : BOOLEAN,
      kb_search_strategy : {"exact", "multi_query"},
      should_handoff : BOOLEAN ]

\* orchestrator.py _default_state
default_state(s) ==
    Visit([s EXCEPT !.intent = "other", !.confidence = 50, !.confidence_set = TRUE,
                    !.needs_knowledge_base = FALSE, !.kb_search_strategy = "none",
                    !.search_queries = <<>>,
                    !.should_handoff = FALSE, !.handoff_reason = "None",
                    !.routing_decision = "direct_respond"],
          "orchestrator")

\* Mutant: the fallback answers with a confidence below the handoff threshold
fallback_decision_unsure(s) ==
    Visit([s EXCEPT !.intent = "question", !.confidence = 35, !.confidence_set = TRUE,
                    !.needs_knowledge_base = TRUE, !.kb_search_strategy = "broad",
                    !.search_queries = <<Last(s.messages).content>>,
                    !.should_handoff = FALSE, !.handoff_reason = "None",
                    !.routing_decision = "fallback_kb_search"],
          "orchestrator")

\* orchestrator.py _fallback_decision; search_queries holds the content of the last
\* message of the state.  is_first_message is not among the returned keys.
fallback_decision(s) ==
    Visit([s EXCEPT !.intent = "question", !.confidence = 40, !.confidence_set = TRUE,
                    !.needs_knowledge_base = TRUE, !.kb_search_strategy = "broad",
                    !.search_queries = <<Last(s.messages).content>>,
                    !.should_handoff = FALSE, !.handoff_reason = "None",
                    !.routing_decision = "fallback_kb_search"],
          "orchestrator")

\* The search_queries of a decision of the LLM: the schema lets it list any strings
\* and no node reads them; one query for exact, two for multi_query
decision_queries(d) ==
    IF d.kb_search_strategy = "exact" THEN <<"query1">> ELSE <<"query1", "query2">>

\* orchestrator.py orchestrator_node lines 260-270
routing_decision(d, is_first_message) ==
    IF d.should_handoff THEN "force_handoff"
    ELSE IF d.confidence < 60 THEN "suggest_handoff"
    ELSE IF is_first_message THEN "greet"
    ELSE IF d.needs_knowledge_base THEN "retrieve_knowledge"
    ELSE "direct_respond"

\* orchestrator.py orchestrator_node: llm_ok is whether the call and json.loads succeeded
orchestrator_node(s, llm_ok, d) ==
    IF SelectType(s.messages, "human") = <<>> THEN default_state(s)
    ELSE IF ~llm_ok THEN fallback_decision(s)
    ELSE LET first == Len(SelectType(s.messages, "human")) = 1 IN
         Visit([s EXCEPT !.intent = d.intent,
                         !.confidence = d.confidence,
                         !.confidence_set = TRUE,
                         !.needs_knowledge_base = d.needs_knowledge_base,
                         !.kb_search_strategy = d.kb_search_strategy,
                         !.search_queries = decision_queries(d),
                         !.should_handoff = d.should_handoff,
                         !.handoff_reason = IF d.should_handoff THEN "reason" ELSE "None",
                         !.routing_decision = routing_decision(d, first),
                         !.is_first_message = first],
               "orchestrator")

----------------------------------------------------------------------------
\* Prompts of the two generation calls, as the set of blocks they contain

\* Mutant: the orchestrator's flag is tested before the confidence bands
respond_disclaimer_flag_first(s) ==
    IF s.suggest_handoff_in_response THEN {"disclaimer_soft"}
    ELSE IF s.confidence < 40 THEN {"disclaimer_force_handoff"}
    ELSE IF 40 <= s.confidence /\ s.confidence < 60 THEN {"disclaimer_suggest_handoff"}
    ELSE {}

\* respond.py respond_node lines 23-56: the confidence disclaimer
respond_disclaimer(s) ==
    IF s.confidence < 40 THEN {"disclaimer_force_handoff"}
    ELSE IF 40 <= s.confidence /\ s.confidence < 60 THEN {"disclaimer_suggest_handoff"}
    ELSE IF s.suggest_handoff_in_response THEN {"disclaimer_soft"}
    ELSE {}

\* respond.py respond_node lines 69-86: the anti-hallucination guardrail
respond_guardrail(s) ==
    IF ~(s.retrieved_docs > 0) /\ s.needs_knowledge_base
    THEN {"anti_hallucination"} ELSE {}

\* respond.py respond_node lines 14-92: the input sent to the responder
respond_prompt(s) ==
    {"system_prompt"}
      \cup (IF s.retrieved_docs > 0 THEN {"kb_context"} ELSE {})
      \cup respond_disclaimer(s)
      \cup respond_guardrail(s)

\* validate_response.py retry_respond_node lines 234-271: the input sent on retry
retry_prompt(s) ==
    {"system_prompt", "rejected_block"}
      \cup (IF s.retrieved_docs > 0 THEN {"kb_context"} ELSE {})

----------------------------------------------------------------------------
\* Generation and validation nodes

\* Mutant: a failed call leaves the state without a reply
respond_node_silent(s, llm_ok) ==
    IF llm_ok
    THEN Visit([s EXCEPT !.messages = add_messages(@, <<AIMessage("reply")>>)], "respond")
    ELSE Visit(s, "respond")

\* respond.py respond_node: the returned update
respond_node(s, llm_ok) ==
    Visit([s EXCEPT !.messages =
               add_messages(@, <<AIMessage(IF llm_ok THEN "reply" ELSE "graceful_error")>>)],
          "respond")

\* Mutant: a validator that raised counts as a rejection
validate_response_node_fail_closed(s, llm_ok, passed, quality) ==
    IF SelectType(s.messages, "ai") = <<>>
    THEN Visit([s EXCEPT !.validation_passed = TRUE, !.quality_score = 100],
               "validate_response")
    ELSE IF llm_ok
    THEN Visit([s EXCEPT !.validation_passed = passed, !.quality_score = quality],
               "validate_response")
    ELSE Visit([s EXCEPT !.validation_passed = FALSE, !.quality_score = 80],
               "validate_response")

\* validate_response.py validate_response_node: the returned update
validate_response_node(s, llm_ok, passed, quality) ==
    IF SelectType(s.messages, "ai") = <<>>
    THEN Visit([s EXCEPT !.validation_passed = TRUE, !.quality_score = 100],
               "validate_response")
    ELSE IF llm_ok
    THEN Visit([s EXCEPT !.validation_passed = passed, !.quality_score = quality],
               "validate_response")
    ELSE Visit([s EXCEPT !.validation_passed = TRUE, !.quality_score = 80],
               "validate_response")

\* validate_response.py retry_respond_node lines 315-319: the messages it returns
retry_new_messages(ms) ==
    Append(SelectSeq(ms, LAMBDA m : ~(m.type = "ai" /\ m = Last(ms))),
           AIMessage("improved_reply"))

\* Mutant: a failed retry answers with the degradation text
retry_respond_node_apology(s, llm_ok) ==
    IF llm_ok
    THEN Visit([s EXCEPT !.messages = add_messages(@, retry_new_messages(s.messages)),
                         !.was_retried = TRUE],
               "retry_respond")
    ELSE Visit([s EXCEPT !.messages = add_messages(@, <<AIMessage("graceful_error")>>),
                         !.was_retried = TRUE],
               "retry_respond")

\* Mutant: the improved reply takes the place of the rejected one
retry_respond_node_replace(s, llm_ok) ==
    IF llm_ok
    THEN Visit([s EXCEPT !.messages = add_messages(<<>>, retry_new_messages(s.messages)),
                         !.was_retried = TRUE],
               "retry_respond")
    ELSE Visit([s EXCEPT !.was_retried = TRUE], "retry_respond")

\* validate_response.py retry_respond_node: the returned update
retry_respond_node(s, llm_ok) ==
    IF llm_ok
    THEN Visit([s EXCEPT !.messages = add_messages(@, retry_new_messages(s.messages)),
                         !.was_retried = TRUE],
               "retry_respond")
    ELSE Visit([s EXCEPT !.was_retried = TRUE], "retry_respond")

\* handoff.py handoff_node: the returned update
handoff_node(s) ==
    Visit([s EXCEPT !.messages = add_messages(@, <<AIMessage("handoff_text")>>)],
          "handoff")

----------------------------------------------------------------------------
\* Retrieval node (optimized_rag.py optimized_rag_node)

\* Lines 357-420: the documents the pipeline leaves in retrieved_docs.  raised: a
\* step of the pipeline raised; validated: chunks passing validate_relevance;
\* fallback: documents of the semantic-only fallback search, run when none passed
\* (the adaptive threshold is always above 0.2)
rag_retrieved_docs(raised, validated, fallback) ==
    IF raised THEN 0
    ELSE IF validated > 0 THEN validated
    ELSE fallback

\* Lines 484-487: the returned update (an empty list is returned as None)
optimized_rag_node(s, docs) ==
    Visit([s EXCEPT !.retrieved_docs = docs], "optimized_rag")

----------------------------------------------------------------------------
\* Retrieval pipeline (optimized_rag.py, knowledge_base.py).  A chunk is the row a
\* search returned: its key fields and its scores in hundredths; rerank_score is
\* -1 while the chunk carries none.

Chunk(d, i, score) ==
    [document_id |-> d, chunk_index |-> i, combined_score |-> score, rerank_score |-> -1]

\* Rows the hybrid query may select for one search query, in the ORDER BY
\* combined_score DESC of the statement (knowledge_base.py lines 347-382), before
\* its threshold and LIMIT are applied
QueryRows ==
    { << Chunk("d1", 0, 90), Chunk("d1", 1, 50), Chunk("d2", 0, 45) >>,
      << Chunk("d2", 0, 70), Chunk("d1", 0, 60), Chunk("d2", 1, 50), Chunk("d3", 0, 35) >>,
      << Chunk("d3", 0, 85), Chunk("d2", 0, 70), Chunk("d1", 1, 50) >> }

\* Variations the query-expansion LLM may list in its JSON answer
Variations == { <<>>, <<"variation1">>, <<"variation1", "variation2">>,
                <<"variation1", "variation2", "variation3">> }

Take(s, n) == SubSeq(s, 1, IF Len(s) < n THEN Len(s) ELSE n)

\* optimized_rag.py lines 337-343: the threshold adapted to the confidence
adaptive_threshold(confidence) ==
    IF confidence > 85 THEN 30
    ELSE IF confidence > 70 THEN 35
    ELSE 40

\* optimized_rag.py generate_search_queries: the queries returned.  llm_ok: the
\* expansion call returned and its answer parsed (a failure falls back to the
\* original query alone)
generate_search_queries(kb_search_strategy, llm_ok, variations) ==
    IF kb_search_strategy = "exact" THEN <<"original_query">>
    ELSE IF ~llm_ok THEN <<"original_query">>
    ELSE <<"original_query">>
           \o Take(variations, IF kb_search_strategy = "broad" THEN 1 ELSE 2)

\* knowledge_base.py hybrid_search lines 379-381: WHERE combined_score >= threshold,
\* LIMIT k over the ordered rows
hybrid_search(rows, threshold, k) ==
    Take(SelectSeq(rows, LAMBDA c : c.combined_score >= threshold), k)

\* Result of one search task as asyncio.gather hands it back
Failed == [status |-> "failed", chunks |-> <<>>]
Found(chunks) == [status |-> "ok", chunks |-> chunks]
Pending == [status |-> "pending", chunks |-> <<>>]

\* Mutant: the results are taken in the order the searches completed
gather_as_completed(results, completed) ==
    [i \in 1..Len(completed) |-> results[completed[i]]]

\* optimized_rag.py line 131, asyncio.gather(*search_tasks, return_exceptions=True):
\* the results in the order of the tasks, whatever order they completed in
gather(results, completed) == results

SameKey(a, b) == a.document_id = b.document_id /\ a.chunk_index = b.chunk_index

\* Mutant: the chunk seen first for a key is kept
put_chunk_first_wins(chunks_by_id, chunk) ==
    IF \E i \in 1..Len(chunks_by_id) : SameKey(chunks_by_id[i], chunk)
    THEN chunks_by_id
    ELSE Append(chunks_by_id, chunk)

\* optimized_rag.py lines 141-149: one chunk into chunks_by_id, a dict (kept here
\* as the sequence of its values in insertion order; replacing a value keeps its
\* place)
put_chunk(chunks_by_id, chunk) ==
    IF \E i \in 1..Len(chunks_by_id) : SameKey(chunks_by_id[i], chunk)
    THEN LET i == CHOOSE j \in 1..Len(chunks_by_id) : SameKey(chunks_by_id[j], chunk)
         IN  IF chunk.combined_score > chunks_by_id[i].combined_score
             THEN [chunks_by_id EXCEPT ![i] = chunk]
             ELSE chunks_by_id
    ELSE Append(chunks_by_id, chunk)

RECURSIVE put_chunks(_, _)
\* The inner loop of lines 141-149 over one result
put_chunks(chunks_by_id, result) ==
    IF result = <<>> THEN chunks_by_id
    ELSE put_chunks(put_chunk(chunks_by_id, Head(result)), Tail(result))

RECURSIVE merge_results(_, _)
\* optimized_rag.py lines 136-149: the loop over results_per_query, an exception
\* being skipped
merge_results(chunks_by_id, results_per_query) ==
    IF results_per_query = <<>> THEN chunks_by_id
    ELSE merge_results(
             IF Head(results_per_query).status = "failed" THEN chunks_by_id
             ELSE put_chunks(chunks_by_id, Head(results_per_query).chunks),
             Tail(results_per_query))

\* One element into a list already sorted in descending order of the field, after
\* the elements that compare equal (list.sort is stable, with reverse=True too)
InsertSorted(sorted, c, field) ==
    LET n == Cardinality({i \in 1..Len(sorted) : sorted[i][field] >= c[field]})
    IN  SubSeq(sorted, 1, n) \o <<c>> \o SubSeq(sorted, n + 1, Len(sorted))

RECURSIVE SortDesc(_, _, _)
\* s.sort(key=lambda x: x[field], reverse=True), built onto the sorted list acc
SortDesc(acc, s, field) ==
    IF s = <<>> THEN acc
    ELSE SortDesc(InsertSorted(acc, Head(s), field), Tail(s), field)

\* optimized_rag.py multi_query_search lines 133-157: merge, dedup and sort
multi_query_merge(results_per_query) ==
    SortDesc(<<>>, merge_results(<<>>, results_per_query), "combined_score")

\* A score of the reranker's answer that float() does not accept (null, a word)
NotANumber == -2

\* Score lists the reranker's LLM may answer, in hundredths
RerankAnswers == { <<90, 30, 70, 55, 20>>, <<60, 80>>, <<>>,
                   <<30, NotANumber, 70, 55, 20>>,
                   <<10, 20, 30, 40, 50, 60, 70, 80, 90, 100>>,
                   <<55, 45, 65, 35, 75, 25, 85, 15, 95, 5, 99, 99>> }

\* Mutant: every chunk is scored, not only the first 10
rerank_results_unbounded(chunks, llm_ok, scores, top_n) ==
    IF chunks = <<>> THEN <<>>
    ELSE LET n == Len(chunks)
             padded == IF Len(scores) < n
                       THEN scores \o [i \in 1..(n - Len(scores)) |-> 50]
                       ELSE scores
             scored == [i \in 1..n |-> [chunks[i] EXCEPT !.rerank_score = padded[i]]]
             bad == {i \in 1..n : padded[i] = NotANumber}
             assigned == [i \in 1..n |->
                            IF \A b \in bad : i < b THEN scored[i] ELSE chunks[i]]
         IN  IF ~llm_ok THEN Take(chunks, top_n)
             ELSE IF bad # {} THEN Take(assigned, top_n)
             ELSE Take(SortDesc(<<>>, scored, "rerank_score"), top_n)

\* optimized_rag.py rerank_results lines 174-258: the top 10 are scored (a missing
\* score is 0.5; concatenating a negative number of 0.5s adds none), sorted by rerank_score and cut to top_n.  When the call fails the
\* first top_n are returned as they came; when a score of the answer is no number,
\* float() raises inside the loop of lines 236-237 and the same except branch
\* returns the first top_n, those before the bad score carrying their rerank_score.
rerank_results(chunks, llm_ok, scores, top_n) ==
    IF chunks = <<>> THEN <<>>
    ELSE LET chunks_to_rerank == Take(chunks, 10)
             n == Len(chunks_to_rerank)
             padded == IF Len(scores) < n
                       THEN scores \o [i \in 1..(n - Len(scores)) |-> 50]
                       ELSE scores
             scored == [i \in 1..n |-> [chunks_to_rerank[i] EXCEPT !.rerank_score = padded[i]]]
             bad == {i \in 1..n : padded[i] = NotANumber}
             assigned == [i \in 1..n |->
                            IF \A b \in bad : i < b THEN scored[i] ELSE chunks_to_rerank[i]]
         IN  IF ~llm_ok THEN Take(chunks_to_rerank, top_n)
             ELSE IF bad # {} THEN Take(assigned, top_n)
             ELSE Take(SortDesc(<<>>, scored, "rerank_score"), top_n)

\* optimized_rag.py validate_relevance: chunk.get('rerank_score', 1.0) for a chunk
\* that carries none
validate_relevance(chunks, combined_threshold, rerank_threshold) ==
    SelectSeq(chunks, LAMBDA c :
        /\ c.combined_score >= combined_threshold
        /\ (IF c.rerank_score = -1 THEN 100 ELSE c.rerank_score) >= rerank_threshold)

\* optimized_rag.py lines 466-482: the row save_rag_metrics is asked to insert
rag_metrics_row(queries_generated, chunks_found, reranking_applied, validation_passed) ==
    [ queries_executed            |-> Len(queries_generated),
      search_strategy             |-> IF Len(queries_generated) > 1 THEN "multi_query"
                                      ELSE "hybrid",
      chunks_found                |-> chunks_found,
      reranking_applied           |-> reranking_applied,
      relevance_validation_passed |-> validation_passed ]

\* Mutant: save_rag_metrics is the last statement of the try block
rag_metrics_saved_in_try(raised, db) == ~raised /\ db = "ok"

\* optimized_rag.py lines 462-482 and rag_metrics.py save_rag_metrics: whether the
\* row is inserted.  The call follows the try/except of the node, so it is made
\* whether or not the pipeline raised; the INSERT may fail.
rag_metrics_saved(raised, db) == db = "ok"

\* optimized_rag.py lines 347-355: the node's locals as initialised before its try
\* block (relevance_validation_passed: "None", "True" or "False")
RagLocals(phase, threshold) ==
    [ phase               |-> phase,
      threshold           |-> threshold,
      queries_generated   |-> <<>>,
      results             |-> <<>>,
      completed           |-> <<>>,
      chunks              |-> <<>>,
      chunks_found        |-> 0,
      scores              |-> <<>>,
      reranking_applied   |-> FALSE,
      relevance_validation_passed |-> "None",
      retrieved_docs      |-> 0,
      raised              |-> FALSE,
      metrics             |-> <<>> ]

\* No execution of optimized_rag is in progress
RagIdle == RagLocals("idle", 0)

----------------------------------------------------------------------------
\* Pricing and the LLM call tracker (pricing.py, llm_tracker.py)

\* pricing.py PRICING, the entries of the models below: nano-dollars per token;
\* a cached_input of 0 stands for None
PRICING ==
    [ m \in {"gpt-5-mini", "gpt-5-pro", "openai/gpt-oss-120b", "text-embedding-3-small"} |->
        CASE m = "gpt-5-mini" -> [input |-> 250, output |-> 2000, cached_input |-> 25]
          [] m = "gpt-5-pro" -> [input |-> 15000, output |-> 120000, cached_input |-> 0]
          [] m = "openai/gpt-oss-120b" -> [input |-> 150, output |-> 600, cached_input |-> 75]
          [] m = "text-embedding-3-small" -> [input |-> 20, output |-> 0, cached_input |-> 0] ]

\* pricing.py line 95: PRICING.get(model, <the gpt-5-mini prices>)
pricing_get(model) ==
    IF model \in DOMAIN PRICING THEN PRICING[model]
    ELSE [input |-> 250, output |-> 2000, cached_input |-> 25]

\* round(x, 8): the nearest multiple of 10 nano-dollars, a tie going to the even one
round8(x) ==
    LET q == x \div 10
        r == x % 10
    IN  IF r < 5 THEN q * 10
        ELSE IF r > 5 THEN (q + 1) * 10
        ELSE IF q % 2 = 0 THEN q * 10
        ELSE (q + 1) * 10

\* Mutant: the total leaves the output cost out
calculate_cost_no_output(model, input_tokens, output_tokens, cached_tokens) ==
    LET pricing == pricing_get(model)
        input_cost == input_tokens * pricing.input
        output_cost == output_tokens * pricing.output
        cached_cost == IF cached_tokens > 0 /\ pricing.cached_input # 0
                       THEN cached_tokens * pricing.cached_input ELSE 0
    IN  [ input_cost  |-> round8(input_cost),
          output_cost |-> round8(output_cost),
          cached_cost |-> round8(cached_cost),
          total_cost  |-> round8(input_cost + cached_cost) ]

\* pricing.py calculate_cost
calculate_cost(model, input_tokens, output_tokens, cached_tokens) ==
    LET pricing == pricing_get(model)
        input_cost == input_tokens * pricing.input
        output_cost == output_tokens * pricing.output
        cached_cost == IF cached_tokens > 0 /\ pricing.cached_input # 0
                       THEN cached_tokens * pricing.cached_input ELSE 0
    IN  [ input_cost  |-> round8(input_cost),
          output_cost |-> round8(output_cost),
          cached_cost |-> round8(cached_cost),
          total_cost  |-> round8(input_cost + output_cost + cached_cost) ]

\* llm_tracker.py LLMCallTracker.record as the nodes call it: the usage the provider
\* reported, cached_tokens left at its default 0.  A call that raised never reached
\* record, so the counts are the zeros of __init__.
tracker_record(llm_ok, usage) ==
    IF llm_ok
    THEN [input_tokens |-> usage.input_tokens, output_tokens |-> usage.output_tokens,
          cached_tokens |-> 0]
    ELSE [input_tokens |-> 0, output_tokens |-> 0, cached_tokens |-> 0]

\* Mutant: a scope left by exception writes the counters of __init__
aexit_row_zeroed(n, model, counts, failed) ==
    LET t == IF failed THEN [input_tokens |-> 0, output_tokens |-> 0, cached_tokens |-> 0]
             ELSE counts
        costs == calculate_cost(model, t.input_tokens, t.output_tokens, t.cached_tokens)
    IN  [ node          |-> n,
          model         |-> model,
          input_tokens  |-> t.input_tokens,
          output_tokens |-> t.output_tokens,
          total_tokens  |-> t.input_tokens + t.output_tokens,
          cached_tokens |-> t.cached_tokens,
          input_cost    |-> costs.input_cost,
          output_cost   |-> costs.output_cost,
          cached_cost   |-> costs.cached_cost,
          total_cost    |-> costs.total_cost,
          error         |-> failed ]

\* llm_tracker.py __aexit__ lines 81-96 and _save_to_db lines 134-160: the row
\* inserted for a scope whose counters are counts; failed: the scope is left by an
\* exception, whose text is written to the error column
aexit_row(n, model, counts, failed) ==
    LET costs == calculate_cost(model, counts.input_tokens, counts.output_tokens,
                                counts.cached_tokens)
    IN  [ node          |-> n,
          model         |-> model,
          input_tokens  |-> counts.input_tokens,
          output_tokens |-> counts.output_tokens,
          total_tokens  |-> counts.input_tokens + counts.output_tokens,
          cached_tokens |-> counts.cached_tokens,
          input_cost    |-> costs.input_cost,
          output_cost   |-> costs.output_cost,
          cached_cost   |-> costs.cached_cost,
          total_cost    |-> costs.total_cost,
          error         |-> failed ]

\* The row of a scope as the nodes use it: one call, then record
llm_call_row(n, model, llm_ok, usage) ==
    aexit_row(n, model, tracker_record(llm_ok, usage), ~llm_ok)

\* llm_tracker.py _save_to_db: the whole scope sits in a try, every failure is logged
save_to_db(rows, row, db) == IF db = "ok" THEN Append(rows, row) ELSE rows

\* analytics_tracking.py calculate_cost: tokens times the model's average price
\* (nano-dollars per token), not rounded
analytics_calculate_cost(tokens_used, model) ==
    tokens_used * (CASE model = "gpt-5-mini" -> 375
                     [] model = "gpt-5-nano" -> 125
                     [] model = "gpt-4o" -> 6250
                     [] OTHER -> 375)

\* llm_tracker.py __init__ lines 63-68: the scope's counters and state.  exc: the
\* exception the body raised; propagated: the exception the scope let through
\* ("None": none)
TrackerScope(phase, model) ==
    [ phase         |-> phase,
      model         |-> model,
      input_tokens  |-> 0,
      output_tokens |-> 0,
      cached_tokens |-> 0,
      recorded      |-> 0,
      exc           |-> "None",
      propagated    |-> "None" ]

\* No tracker scope is followed on its own
TrackerIdle == TrackerScope("idle", "None")

----------------------------------------------------------------------------
\* Conversation memory (conversation_memory.py)

\* The summary column of the conversation: absent, or the JSON save_summary wrote,
\* with the message_count it was made at and its age in hours now
NoSummary == [exists |-> FALSE, message_count |-> 0, age_hours |-> 0]
Summary(message_count, age_hours) ==
    [exists |-> TRUE, message_count |-> message_count, age_hours |-> age_hours]

\* conversation_memory.py get_or_create_summary lines 98-137: "generate" a new
\* summary, return the "cached" one, or return None ("none")
summary_decision(existing_summary, current_message_count) ==
    IF ~existing_summary.exists THEN "generate"
    ELSE IF current_message_count < 5 THEN "none"
    ELSE IF \/ current_message_count - existing_summary.message_count >= 10
            \/ existing_summary.age_hours > 24
    THEN "generate"
    ELSE "cached"

\* conversation_memory.py save_summary lines 264-290: the column after the UPDATE,
\* a failure of which is swallowed
save_summary(stored, message_count, db_outcome) ==
    IF db_outcome = "ok" THEN Summary(message_count, 0) ELSE stored

\* The conversation as get_or_create_summary finds it
Conversation(phase, summary, messages) ==
    [phase |-> phase, summary |-> summary, messages |-> messages, returned |-> "nothing"]

\* No conversation memory is followed
MemoryIdle == Conversation("idle", NoSummary, 0)

----------------------------------------------------------------------------
\* The database module (db/database.py)

\* Number of threads calling into the module
MaxThreads == 2

Threads == 1..MaxThreads

\* A caller of get_connection_pool: where it is in the function, the creation
\* attempt it is at, and what the call gave it ("nothing" while it has not ended)
Caller(at) == [at |-> at, attempt |-> 0, result |-> "nothing"]

\* database.py lines 9-11 with the connections of one turn: the module globals, the
\* callers of get_connection_pool, the stack of scopes of the turn that hold a
\* connection, the exception propagating in the turn, and how the turn ended
DbModule(phase, connection_pool) ==
    [phase           |-> phase,
     connection_pool |-> connection_pool,
     pool_lock       |-> FALSE,
     callers         |-> [t \in Threads |-> Caller("idle")],
     held            |-> <<>>,
     leaked          |-> 0,
     exc             |-> FALSE,
     scopes_run      |-> 0,
     exits           |-> {},
     turn            |-> "none"]

\* The module as the chat turn sees it from outside: the pool exists, nothing of
\* the module is followed
DbIdle == DbModule("idle", "pool")

\* The scopes of a turn that take a connection, with the shape of their code:
\* "get_db" is the context manager (database.py 103-114); "try_finally" acquires and
\* enters try at once (knowledge_base.py 343-432); "cursor_try_finally" and
\* "cursor_try_except" create the cursor between the acquisition and the try
\* (knowledge_base.py 172-190, rag_metrics.py 52-108); swallow tells whether the
\* scope's own except clause ends the exception
Sites ==
    { [name |-> "get_config",            shape |-> "get_db",             swallow |-> FALSE],
      [name |-> "create_default_config", shape |-> "get_db",             swallow |-> FALSE],
      [name |-> "save_to_db",            shape |-> "get_db",             swallow |-> FALSE],
      [name |-> "hybrid_search",         shape |-> "try_finally",        swallow |-> FALSE],
      [name |-> "search_count",          shape |-> "cursor_try_finally", swallow |-> FALSE],
      [name |-> "save_rag_metrics",      shape |-> "cursor_try_except",  swallow |-> TRUE] }

\* Ways the body of a scope ends: it runs to its end, returns early, raises an
\* Exception, or is left by a BaseException (cancellation)
ScopeOutcomes == {"normal", "early_return", "exception", "cancelled"}

\* Mutant: the connection is returned at the end of the body only, not in a finally
scope_exit_end_of_body(site, outcome, commit_ok, rollback_ok) ==
    [returned |-> outcome = "normal" /\ commit_ok,
     raises   |-> ~(outcome \in {"normal", "early_return"} /\ commit_ok)]

\* database.py get_db lines 107-114, rag_metrics.py lines 55-108, knowledge_base.py
\* lines 175-190 and 344-432: the blocks run when the body of a scope ends, whether
\* the connection is returned to the pool (the finally block ran) and whether an
\* exception leaves the scope
scope_exit(site, outcome, commit_ok, rollback_ok) ==
    LET completes == outcome \in {"normal", "early_return"}
        blocks ==
          IF site.shape = "get_db"
          THEN (IF completes
                THEN (IF commit_ok THEN <<"commit", "finally">>
                      ELSE <<"commit", "except", "finally">>)
                ELSE IF outcome = "exception" THEN <<"except", "finally">>
                ELSE <<"finally">>)
          ELSE IF site.shape = "cursor_try_except"
          THEN (IF completes /\ commit_ok THEN <<"finally">>
                ELSE IF outcome = "cancelled" THEN <<"finally">>
                ELSE <<"except", "finally">>)
          ELSE <<"finally">>
        failed == ~completes \/ (site.shape \in {"get_db", "cursor_try_except"} /\ ~commit_ok)
        swallowed == /\ site.swallow
                     /\ outcome # "cancelled"
                     /\ rollback_ok
    IN  [returned |-> \E i \in 1..Len(blocks) : blocks[i] = "finally",
         raises   |-> failed /\ ~swallowed]

----------------------------------------------------------------------------
\* The /chat route (routes/chat.py) and the agent configuration (agent_config.py)

\* agent_config.py get_config: the configuration returned for the business's row; a
\* missing row is replaced by the default configuration, which is inserted enabled.
\* "raise": a database scope failed, the exception leaves get_config.
get_config(row, db, db_default) ==
    IF db # "ok" THEN "raise"
    ELSE IF row = "missing"
    THEN (IF db_default # "ok" THEN "raise" ELSE "enabled")
    ELSE row

\* routes/chat.py lines 47-63 and 83-95: the status the route answers with before
\* the engine is called (0: none, the engine is called)
chat_preflight(agent_config) ==
    IF agent_config = "raise" THEN 500
    ELSE IF agent_config = "None" THEN 404
    ELSE IF agent_config = "disabled" THEN 403
    ELSE 0

\* routes/chat.py lines 77-95: the status after engine.chat returned or raised
http_status(outcome) == IF outcome = "returned" THEN 200 ELSE 500

\* The model of the configuration the engine was built with: the default row's
\* (agent_config.py line 79) or the business's own
config_model(row) ==
    IF row = "default_created" THEN "gpt-5-mini" ELSE "openai/gpt-oss-120b"

\* The site of a database scope that did not succeed
Fault(site, db) == IF db = "ok" THEN {} ELSE {site}

----------------------------------------------------------------------------
\* AgentEngine.chat (engine.py)

\* Mutant: the first assistant message is returned instead of the last
chat_response_first(ms) ==
    IF SelectType(ms, "ai") # <<>> THEN Head(SelectType(ms, "ai")).content
    ELSE "could_not_process"

\* engine.py lines 114-120: the reply taken from the final messages
chat_response(ms) ==
    IF SelectType(ms, "ai") # <<>> THEN Last(SelectType(ms, "ai")).content
    ELSE "could_not_process"

\* Mutant: the except branch leaves the status as it was
mark_failed_status_kept(status, db) == status

\* engine.py lines 210-240: the except branch marks the record failed
mark_failed_status(status, db) == IF db = "ok" THEN "failed" ELSE status

----------------------------------------------------------------------------
\* Initial state: the request has arrived, the route has not run
Init ==
    /\ msgPatterns \in SUBSET {"greeting", "farewell", "thanks", "request_human"}
    /\ agentConfig \in {"missing", "disabled", "enabled"}
    /\ pc = "request"
    /\ http = 0
    /\ node = "START"
    /\ state = create_initial_state
    /\ execStatus = "none"
    /\ execWrites = 0
    /\ execError = "None"
    /\ response = "none"
    /\ metaHandoff = FALSE
    /\ llmCalls = <<>>
    /\ ragRows = 0
    /\ toolRows = 0
    /\ llmRows = <<>>
    /\ tokenTracker = 0
    /\ execTokens = 0
    /\ execCost = 0
    /\ faults = {}
    /\ deadlineExceeded = FALSE
    /\ rag = RagIdle
    /\ tracker = TrackerIdle
    /\ memory = MemoryIdle
    /\ database = DbIdle

\* routes/chat.py lines 47-66: look the configuration up, answer 404 / 403 / 500 or
\* build the engine
ChatRoute ==
    /\ pc = "request"
    /\ \E db \in DbOutcomes, db_default \in DbOutcomes :
         LET agent_config == get_config(agentConfig, db, db_default)
             created == agentConfig = "missing" /\ db = "ok" /\ db_default = "ok"
         IN  /\ http' = chat_preflight(agent_config)
             /\ pc' = IF chat_preflight(agent_config) = 0 THEN "idle" ELSE "rejected"
             /\ agentConfig' = IF created THEN "default_created" ELSE agentConfig
             /\ faults' = faults \cup Fault("get_config", db)
                            \cup (IF agentConfig = "missing" /\ db = "ok"
                                  THEN Fault("create_default_config", db_default) ELSE {})
    /\ UNCHANGED <<msgPatterns, node, state, execStatus, execWrites, execError, response,
                   metaHandoff, llmCalls, ragRows, toolRows, llmRows, tokenTracker,
                   execTokens, execCost, deadlineExceeded, rag, tracker, memory, database>>

\* engine.py lines 50-91: insert the execution row, build the initial state
ChatStart ==
    /\ pc = "idle"
    /\ \E db \in DbOutcomes :
         /\ IF db = "ok"
            THEN /\ execStatus' = "active"
                 /\ pc' = "running"
                 /\ node' = "smart_router"
                 /\ http' = http
            ELSE /\ execStatus' = execStatus
                 /\ pc' = "raised"
                 /\ node' = node
                 /\ http' = http_status("raised")
         /\ faults' = faults \cup Fault("insert_execution", db)
    /\ state' = create_initial_state
    /\ UNCHANGED <<execWrites, execError, response, metaHandoff, llmCalls, ragRows,
                   toolRows, llmRows, execTokens, execCost, deadlineExceeded>>
    /\ UNCHANGED envVars

\* engine.py lines 104-112: the graph run is awaited without a timeout; the clock
\* passes the turn deadline while the turn is running
DeadlineElapses ==
    /\ pc = "running"
    /\ ~deadlineExceeded
    /\ deadlineExceeded' = TRUE
    /\ UNCHANGED <<pc, http, node, state, execStatus, execWrites, execError, response,
                   metaHandoff, llmCalls, ragRows, toolRows, llmRows, execTokens,
                   execCost, faults>>
    /\ UNCHANGED envVars

SmartRouter ==
    /\ pc = "running" /\ node = "smart_router"
    /\ state' = smart_router_node(state, msgPatterns)
    /\ node' = route_after_smart_router(state')
    /\ UNCHANGED <<pc, http, execStatus, execWrites, execError, response, metaHandoff,
                   llmCalls, ragRows, toolRows, llmRows, execTokens, execCost, faults,
                   deadlineExceeded>>
    /\ UNCHANGED envVars

\* orchestrator.py orchestrator_node: the call is made on the provider client
\* directly, outside any LLMCallTracker scope
Orchestrator ==
    /\ pc = "running" /\ node = "orchestrator"
    /\ \E llm_ok \in BOOLEAN, d \in Decisions :
         /\ state' = orchestrator_node(state, llm_ok, d)
         /\ llmCalls' = Append(llmCalls, [node |-> "orchestrator", prompt |-> {"orchestrator_prompt"},
                                          ok |-> llm_ok])
    /\ node' = route_after_orchestrator(state')
    /\ UNCHANGED <<pc, http, execStatus, execWrites, execError, response, metaHandoff,
                   ragRows, toolRows, llmRows, execTokens, execCost, faults,
                   deadlineExceeded>>
    /\ UNCHANGED envVars

Greet ==
    /\ pc = "running" /\ node = "greet"
    /\ state' = greet_node(state)
    /\ node' = static_edge("greet")
    /\ UNCHANGED <<pc, http, execStatus, execWrites, execError, response, metaHandoff,
                   llmCalls, ragRows, toolRows, llmRows, execTokens, execCost, faults,
                   deadlineExceeded>>
    /\ UNCHANGED envVars

\* optimized_rag.py optimized_rag_node with save_tool_execution and save_rag_metrics.
\* save_tool_execution swallows every failure; save_rag_metrics takes its connection
\* outside its try block, so a failure to obtain one leaves the node by exception.
OptimizedRag ==
    /\ pc = "running" /\ node = "optimized_rag"
    /\ \E raised \in BOOLEAN, validated \in 0..MaxDocs, fallback \in 0..MaxDocs,
          db_tool \in DbOutcomes, db_metrics \in DbOutcomes :
         /\ toolRows' = IF db_tool = "ok" THEN toolRows + 1 ELSE toolRows
         /\ ragRows' = IF db_metrics = "ok" THEN ragRows + 1 ELSE ragRows
         /\ faults' = faults \cup Fault("tool_executions", db_tool)
                        \cup Fault("rag_metrics", db_metrics)
         /\ IF db_metrics = "conn_fail"
            THEN /\ node' = "RAISED"
                 /\ state' = state
            ELSE /\ state' = optimized_rag_node(state,
                                 rag_retrieved_docs(raised, validated, fallback))
                 /\ node' = static_edge("optimized_rag")
    /\ UNCHANGED <<pc, http, execStatus, execWrites, execError, response, metaHandoff,
                   llmCalls, llmRows, execTokens, execCost, deadlineExceeded>>
    /\ UNCHANGED envVars

Respond ==
    /\ pc = "running" /\ node = "respond"
    /\ \E llm_ok \in BOOLEAN, usage \in Usages, db_llm \in DbOutcomes :
         /\ state' = respond_node(state, llm_ok)
         /\ llmCalls' = Append(llmCalls, [node |-> "respond", prompt |-> respond_prompt(state),
                                          ok |-> llm_ok])
         /\ llmRows' = save_to_db(llmRows,
                           llm_call_row("respond", config_model(agentConfig), llm_ok, usage),
                           db_llm)
         /\ faults' = faults \cup Fault("llm_calls", db_llm)
    /\ node' = route_after_respond(state')
    /\ UNCHANGED <<pc, http, execStatus, execWrites, execError, response, metaHandoff,
                   ragRows, toolRows, execTokens, execCost, deadlineExceeded>>
    /\ UNCHANGED envVars

ValidateResponse ==
    /\ pc = "running" /\ node = "validate_response"
    /\ \E llm_ok \in BOOLEAN, passed \in BOOLEAN, quality \in {55, 85},
          usage \in Usages, db_llm \in DbOutcomes :
         /\ state' = validate_response_node(state, llm_ok, passed, quality)
         /\ llmCalls' = Append(llmCalls, [node |-> "validate_response",
                                          prompt |-> {"validation_prompt"}, ok |-> llm_ok])
         /\ llmRows' = save_to_db(llmRows,
                           llm_call_row("validate_response", "gpt-5-mini", llm_ok, usage),
                           db_llm)
         /\ faults' = faults \cup Fault("llm_calls", db_llm)
    /\ node' = route_after_validation(state')
    /\ UNCHANGED <<pc, http, execStatus, execWrites, execError, response, metaHandoff,
                   ragRows, toolRows, execTokens, execCost, deadlineExceeded>>
    /\ UNCHANGED envVars

RetryRespond ==
    /\ pc = "running" /\ node = "retry_respond"
    /\ \E llm_ok \in BOOLEAN, usage \in Usages, db_llm \in DbOutcomes :
         /\ state' = retry_respond_node(state, llm_ok)
         /\ llmCalls' = Append(llmCalls, [node |-> "retry_respond", prompt |-> retry_prompt(state),
                                          ok |-> llm_ok])
         /\ llmRows' = save_to_db(llmRows,
                           llm_call_row("retry_respond", config_model(agentConfig), llm_ok, usage),
                           db_llm)
         /\ faults' = faults \cup Fault("llm_calls", db_llm)
    /\ node' = static_edge("retry_respond")
    /\ UNCHANGED <<pc, http, execStatus, execWrites, execError, response, metaHandoff,
                   ragRows, toolRows, execTokens, execCost, deadlineExceeded>>
    /\ UNCHANGED envVars

\* handoff.py handoff_node: the UPDATE's failure is swallowed, a failure to obtain
\* the connection leaves the node by exception
Handoff ==
    /\ pc = "running" /\ node = "handoff"
    /\ \E db \in DbOutcomes :
         /\ execStatus' = IF db = "ok" THEN "handoff" ELSE execStatus
         /\ execWrites' = IF db = "ok" THEN execWrites + 1 ELSE execWrites
         /\ faults' = faults \cup Fault("handoff_update", db)
         /\ IF db = "conn_fail"
            THEN /\ node' = "RAISED"
                 /\ state' = state
            ELSE /\ state' = handoff_node(state)
                 /\ node' = static_edge("handoff")
    /\ UNCHANGED <<pc, http, execError, response, metaHandoff, llmCalls, ragRows,
                   toolRows, llmRows, execTokens, execCost, deadlineExceeded>>
    /\ UNCHANGED envVars

\* engine.py lines 114-208, and lines 210-240 when the final database scope cannot
\* obtain a connection: the graph returned, persist the result and return the reply
ChatFinish ==
    /\ pc = "running" /\ node = "END"
    /\ \E db \in DbOutcomes, db_failed \in DbOutcomes :
         IF db = "conn_fail"
         THEN /\ execStatus' = mark_failed_status(execStatus, db_failed)
              /\ execWrites' = IF db_failed = "ok" THEN execWrites + 1 ELSE execWrites
              /\ execError' = IF db_failed = "ok" THEN "error_text" ELSE execError
              /\ pc' = "raised"
              /\ http' = http_status("raised")
              /\ faults' = faults \cup {"final_update"} \cup Fault("mark_failed", db_failed)
              /\ UNCHANGED <<response, metaHandoff, execTokens, execCost>>
         ELSE /\ execStatus' = IF db = "ok" THEN "completed" ELSE execStatus
              /\ execWrites' = IF db = "ok" THEN execWrites + 1 ELSE execWrites
              /\ execTokens' = IF db = "ok" THEN tokenTracker ELSE execTokens
              /\ execCost' = IF db = "ok"
                             THEN analytics_calculate_cost(tokenTracker,
                                                           config_model(agentConfig))
                             ELSE execCost
              /\ execError' = execError
              /\ response' = chat_response(state.messages)
              /\ metaHandoff' = state.should_handoff
              /\ pc' = "returned"
              /\ http' = http_status("returned")
              /\ faults' = faults \cup Fault("final_update", db)
    /\ UNCHANGED <<node, state, llmCalls, ragRows, toolRows, llmRows, deadlineExceeded>>
    /\ UNCHANGED envVars

\* engine.py lines 210-240: the graph raised, mark the record failed and re-raise
ChatExcept ==
    /\ pc = "running" /\ node = "RAISED"
    /\ \E db_failed \in DbOutcomes :
         /\ execStatus' = mark_failed_status(execStatus, db_failed)
         /\ execWrites' = IF db_failed = "ok" THEN execWrites + 1 ELSE execWrites
         /\ execError' = IF db_failed = "ok" THEN "error_text" ELSE execError
         /\ faults' = faults \cup Fault("mark_failed", db_failed)
    /\ pc' = "raised"
    /\ http' = http_status("raised")
    /\ UNCHANGED <<node, state, response, metaHandoff, llmCalls, ragRows, toolRows,
                   llmRows, execTokens, execCost, deadlineExceeded>>
    /\ UNCHANGED envVars

Next ==
    \/ ChatRoute
    \/ ChatStart
    \/ SmartRouter
    \/ Orchestrator
    \/ Greet
    \/ OptimizedRag
    \/ Respond
    \/ ValidateResponse
    \/ RetryRespond
    \/ Handoff
    \/ ChatFinish
    \/ ChatExcept

Spec == Init /\ [][Next]_vars

\* The turn observed against the clock: the deadline may pass at any point of it
TimedNext ==
    \/ Next
    \/ DeadlineElapses

TimedSpec == Init /\ [][TimedNext]_vars

\* The turn with its steps eventually taken: every awaited LLM or database call
\* returns or raises, and the event loop then resumes the coroutine awaiting it
FairSpec == Spec /\ WF_vars(Next)

----------------------------------------------------------------------------
\* One execution of optimized_rag taken step by step (optimized_rag.py
\* optimized_rag_node): each step ends where the node awaits a provider or the
\* database, the searches of the fan-out completing in any order.

\* What no step of optimized_rag writes
ragFrame == <<msgPatterns, agentConfig, pc, http, execStatus, execWrites, execError,
              response, metaHandoff, tokenTracker, execTokens, execCost,
              deadlineExceeded, tracker, memory, database>>

\* Decisions of the orchestrator that send the turn to optimized_rag
RagDecisions ==
    { d \in Decisions : /\ d.intent = "question"
                        /\ d.needs_knowledge_base
                        /\ ~d.should_handoff
                        /\ d.confidence \in {50, 75, 90} }

\* llm_tracker.py estimate_embedding_tokens: the tokens estimated for the query text
EmbeddingUsage == [input_tokens |-> 8, output_tokens |-> 0]

\* The turn as it enters optimized_rag: the route and ChatStart succeeded, the router
\* passed the message on, and the orchestrator answered or fell back
RagEntry ==
    /\ msgPatterns = {}
    /\ agentConfig = "enabled"
    /\ pc = "running"
    /\ http = 0
    /\ node = "optimized_rag"
    /\ \E llm_ok \in BOOLEAN, d \in RagDecisions :
         /\ state = orchestrator_node(smart_router_node(create_initial_state, {}), llm_ok, d)
         /\ llmCalls = << [node |-> "orchestrator", prompt |-> {"orchestrator_prompt"},
                           ok |-> llm_ok] >>
    /\ route_after_orchestrator(state) = "optimized_rag"
    /\ execStatus = "active"
    /\ execWrites = 0
    /\ execError = "None"
    /\ response = "none"
    /\ metaHandoff = FALSE
    /\ ragRows = 0
    /\ toolRows = 0
    /\ llmRows = <<>>
    /\ tokenTracker = 0
    /\ execTokens = 0
    /\ execCost = 0
    /\ faults = {}
    /\ deadlineExceeded = FALSE

\* optimized_rag.py lines 305-355: the node has set its locals and enters its try
RagInit ==
    /\ RagEntry
    /\ tracker = TrackerIdle
    /\ memory = MemoryIdle
    /\ database = DbIdle
    /\ rag = RagLocals("generating", adaptive_threshold(state.confidence))

\* optimized_rag.py lines 360-364 with generate_search_queries: the client is
\* created outside the function's try block, so a failure to create it leaves the
\* function and is caught by the node; a failed call is answered with the original
\* query alone
GenerateSearchQueries ==
    /\ pc = "running" /\ node = "optimized_rag" /\ rag.phase = "generating"
    /\ IF state.kb_search_strategy = "exact"
       THEN /\ rag' = [rag EXCEPT !.phase = "searching",
                                  !.queries_generated = generate_search_queries("exact", TRUE, <<>>),
                                  !.results = <<Pending>>]
            /\ UNCHANGED <<llmCalls, llmRows, faults>>
       ELSE \E client_ok \in BOOLEAN, llm_ok \in BOOLEAN, variations \in Variations,
               usage \in Usages, db_llm \in DbOutcomes :
              IF ~client_ok
              THEN /\ rag' = [rag EXCEPT !.phase = "raised", !.raised = TRUE]
                   /\ UNCHANGED <<llmCalls, llmRows, faults>>
              ELSE LET queries == generate_search_queries(state.kb_search_strategy,
                                                          llm_ok, variations)
                   IN  /\ rag' = [rag EXCEPT !.phase = "searching",
                                             !.queries_generated = queries,
                                             !.results = [i \in 1..Len(queries) |-> Pending]]
                       /\ llmCalls' = Append(llmCalls, [node |-> "optimized_rag",
                                                        prompt |-> {"multi_query_prompt"},
                                                        ok |-> llm_ok])
                       /\ llmRows' = save_to_db(llmRows,
                                         llm_call_row("optimized_rag", "openai/gpt-oss-20b",
                                                      llm_ok, usage),
                                         db_llm)
                       /\ faults' = faults \cup Fault("llm_calls", db_llm)
    /\ UNCHANGED <<state, node, ragRows, toolRows>>
    /\ UNCHANGED ragFrame

\* knowledge_base.py hybrid_search as a task of the fan-out (optimized_rag.py lines
\* 119-131): the embedding call in its tracker scope, then the hybrid query; the
\* task ends with its rows or with the exception of either
HybridSearchCompletes ==
    /\ pc = "running" /\ node = "optimized_rag" /\ rag.phase = "searching"
    /\ \E i \in 1..Len(rag.results) :
         /\ rag.results[i].status = "pending"
         /\ \E embed_ok \in BOOLEAN, db_llm \in DbOutcomes, db \in DbOutcomes,
               rows \in QueryRows :
              /\ llmCalls' = Append(llmCalls, [node |-> "optimized_rag",
                                               prompt |-> {"embedding_query"},
                                               ok |-> embed_ok])
              /\ llmRows' = save_to_db(llmRows,
                                llm_call_row("optimized_rag", "text-embedding-3-small",
                                             embed_ok, EmbeddingUsage),
                                db_llm)
              /\ faults' = faults \cup Fault("llm_calls", db_llm)
                             \cup (IF embed_ok THEN Fault("hybrid_search", db) ELSE {})
              /\ rag' = [rag EXCEPT
                           !.results[i] = IF embed_ok /\ db = "ok"
                                          THEN Found(hybrid_search(rows, rag.threshold, 5))
                                          ELSE Failed,
                           !.completed = Append(rag.completed, i)]
    /\ UNCHANGED <<state, node, ragRows, toolRows>>
    /\ UNCHANGED ragFrame

\* optimized_rag.py multi_query_search lines 131-157: every task has ended, the
\* results are merged; line 380: chunks_found
GatherSearches ==
    /\ pc = "running" /\ node = "optimized_rag" /\ rag.phase = "searching"
    /\ \A i \in 1..Len(rag.results) : rag.results[i].status # "pending"
    /\ LET chunks == multi_query_merge(gather(rag.results, rag.completed))
       IN  rag' = [rag EXCEPT !.phase = "merged",
                              !.chunks = chunks,
                              !.chunks_found = Len(chunks)]
    /\ UNCHANGED <<state, node, ragRows, toolRows, llmCalls, llmRows, faults>>
    /\ UNCHANGED ragFrame

\* optimized_rag.py lines 382-393: rerank when at least 5 chunks were found (the
\* reranker's client is created outside its try block)
RerankResults ==
    /\ pc = "running" /\ node = "optimized_rag" /\ rag.phase = "merged"
    /\ IF rag.chunks_found >= 5
       THEN \E client_ok \in BOOLEAN, llm_ok \in BOOLEAN, scores \in RerankAnswers,
               usage \in Usages, db_llm \in DbOutcomes :
              IF ~client_ok
              THEN /\ rag' = [rag EXCEPT !.phase = "raised", !.raised = TRUE,
                                         !.completed = <<>>]
                   /\ UNCHANGED <<llmCalls, llmRows, faults>>
              ELSE /\ rag' = [rag EXCEPT
                                !.phase = "reranked",
                                !.completed = <<>>,
                                !.scores = IF llm_ok THEN scores ELSE <<>>,
                                !.chunks = rerank_results(rag.chunks, llm_ok, scores, 5),
                                !.reranking_applied = TRUE]
                   /\ llmCalls' = Append(llmCalls, [node |-> "optimized_rag",
                                                    prompt |-> {"rerank_prompt"},
                                                    ok |-> llm_ok])
                   /\ llmRows' = save_to_db(llmRows,
                                     llm_call_row("optimized_rag", "openai/gpt-oss-20b",
                                                  llm_ok, usage),
                                     db_llm)
                   /\ faults' = faults \cup Fault("llm_calls", db_llm)
       ELSE /\ rag' = [rag EXCEPT !.phase = "reranked", !.completed = <<>>]
            /\ UNCHANGED <<llmCalls, llmRows, faults>>
    /\ UNCHANGED <<state, node, ragRows, toolRows>>
    /\ UNCHANGED ragFrame

\* optimized_rag.py lines 395-403: validate_relevance with the thresholds 0.4 and
\* 0.5; the chunks that pass are the retrieved documents
ValidateRelevance ==
    /\ pc = "running" /\ node = "optimized_rag" /\ rag.phase = "reranked"
    /\ LET validated_chunks == validate_relevance(rag.chunks, 40, 50)
       IN  rag' = [rag EXCEPT
                     !.phase = "validated",
                     !.chunks = validated_chunks,
                     !.relevance_validation_passed =
                         IF Len(validated_chunks) > 0 THEN "True" ELSE "False",
                     !.retrieved_docs = Len(validated_chunks)]
    /\ UNCHANGED <<state, node, ragRows, toolRows, llmCalls, llmRows, faults>>
    /\ UNCHANGED ragFrame

\* optimized_rag.py lines 405-420: when no chunk passed, knowledge_base.py search
\* with k=3 and threshold 0.2: the count query (no embeddings: an empty answer), the
\* embedding call in its tracker scope, the similarity query
FallbackSearch ==
    /\ pc = "running" /\ node = "optimized_rag" /\ rag.phase = "validated"
    /\ IF rag.retrieved_docs = 0 /\ rag.threshold > 20
       THEN \E db_count \in DbOutcomes, has_embeddings \in BOOLEAN, embed_ok \in BOOLEAN,
               db_llm \in DbOutcomes, db \in DbOutcomes, found \in 0..MaxDocs :
              IF db_count # "ok"
              THEN /\ rag' = [rag EXCEPT !.phase = "raised", !.raised = TRUE]
                   /\ faults' = faults \cup Fault("search", db_count)
                   /\ UNCHANGED <<llmCalls, llmRows>>
              ELSE IF ~has_embeddings
              THEN /\ rag' = [rag EXCEPT !.phase = "searched"]
                   /\ UNCHANGED <<llmCalls, llmRows, faults>>
              ELSE /\ llmCalls' = Append(llmCalls, [node |-> "optimized_rag",
                                                    prompt |-> {"embedding_query"},
                                                    ok |-> embed_ok])
                   /\ llmRows' = save_to_db(llmRows,
                                     llm_call_row("optimized_rag", "text-embedding-3-small",
                                                  embed_ok, EmbeddingUsage),
                                     db_llm)
                   /\ faults' = faults \cup Fault("llm_calls", db_llm)
                                  \cup (IF embed_ok THEN Fault("search", db) ELSE {})
                   /\ rag' = IF embed_ok /\ db = "ok"
                             THEN [rag EXCEPT !.phase = "searched",
                                              !.retrieved_docs = found,
                                              !.chunks_found = rag.chunks_found + found]
                             ELSE [rag EXCEPT !.phase = "raised", !.raised = TRUE]
       ELSE /\ rag' = [rag EXCEPT !.phase = "searched"]
            /\ UNCHANGED <<llmCalls, llmRows, faults>>
    /\ UNCHANGED <<state, node, ragRows, toolRows>>
    /\ UNCHANGED ragFrame

\* optimized_rag.py lines 422-487: save_tool_execution (in the try block or in the
\* except branch; it swallows every failure), save_rag_metrics after both, then the
\* returned update.  save_rag_metrics takes its connection outside its try block.
SaveMetricsAndReturn ==
    /\ pc = "running" /\ node = "optimized_rag" /\ rag.phase \in {"searched", "raised"}
    /\ \E db_tool \in DbOutcomes, db_metrics \in DbOutcomes :
         /\ toolRows' = IF db_tool = "ok" THEN toolRows + 1 ELSE toolRows
         /\ ragRows' = IF rag_metrics_saved(rag.raised, db_metrics)
                        THEN ragRows + 1 ELSE ragRows
         /\ faults' = faults \cup Fault("tool_executions", db_tool)
                        \cup Fault("rag_metrics", db_metrics)
         /\ rag' = [rag EXCEPT
                      !.phase = "returned",
                      !.metrics = IF rag_metrics_saved(rag.raised, db_metrics)
                                  THEN << rag_metrics_row(rag.queries_generated,
                                                          rag.chunks_found,
                                                          rag.reranking_applied,
                                                          rag.relevance_validation_passed) >>
                                  ELSE <<>>]
         /\ IF db_metrics = "conn_fail"
            THEN /\ node' = "RAISED"
                 /\ state' = state
            ELSE /\ state' = optimized_rag_node(state, rag.retrieved_docs)
                 /\ node' = static_edge("optimized_rag")
    /\ UNCHANGED <<llmCalls, llmRows>>
    /\ UNCHANGED ragFrame

RagNext ==
    \/ GenerateSearchQueries
    \/ HybridSearchCompletes
    \/ GatherSearches
    \/ RerankResults
    \/ ValidateRelevance
    \/ FallbackSearch
    \/ SaveMetricsAndReturn

RagSpec == RagInit /\ [][RagNext]_vars

----------------------------------------------------------------------------
\* Reranking and validation over merged lists of every length the fan-out can
\* produce (3 searches of at most 5 rows each).

\* Chunks of a knowledge base in descending order of combined_score
ChunkPool ==
    << Chunk("d1", 0, 95), Chunk("d2", 0, 90), Chunk("d1", 1, 85), Chunk("d3", 0, 80),
       Chunk("d2", 1, 75), Chunk("d3", 1, 70), Chunk("d4", 0, 65), Chunk("d1", 2, 60),
       Chunk("d4", 1, 55), Chunk("d2", 2, 50), Chunk("d3", 2, 45), Chunk("d4", 2, 38) >>

\* Lists multi_query_search may return: sorted, one chunk per key
MergedLists ==
    { SubSeq(ChunkPool, a, b) : a \in {1, 3, 8}, b \in 0..Len(ChunkPool) }

\* optimized_rag.py line 380: multi_query_search has returned its merged list, every
\* chunk of which passed the threshold of the hybrid query
RerankInit ==
    /\ RagEntry
    /\ tracker = TrackerIdle
    /\ memory = MemoryIdle
    /\ database = DbIdle
    /\ \E merged \in MergedLists :
         /\ \A i \in 1..Len(merged) :
               merged[i].combined_score >= adaptive_threshold(state.confidence)
         /\ rag = [RagLocals("merged", adaptive_threshold(state.confidence)) EXCEPT
                     !.queries_generated = <<"original_query">>,
                     !.chunks = merged,
                     !.chunks_found = Len(merged)]

RerankNext ==
    \/ RerankResults
    \/ ValidateRelevance

RerankSpec == RerankInit /\ [][RerankNext]_vars

----------------------------------------------------------------------------
\* One LLMCallTracker scope on its own (llm_tracker.py), from __aenter__ to
\* __aexit__: the body may call record, and ends normally or by an exception.

\* The model identifiers the engine's call sites construct a tracker with: respond
\* and retry_respond (the configuration's model), validate_response, query
\* expansion and reranking, the query embedding
TrackedModels ==
    { "gpt-5-mini", "openai/gpt-oss-120b", "openai/gpt-oss-20b", "text-embedding-3-small" }

\* Exceptions a wrapped call may raise
Exceptions == { "RateLimitError", "TimeoutError" }

\* Largest number of record() calls followed in one scope
MaxRecords == 2

\* llm_tracker.py lines 33-73: a node of a running turn has constructed a tracker
\* and entered its scope
TrackerInit ==
    /\ RagEntry
    /\ rag = RagIdle
    /\ memory = MemoryIdle
    /\ database = DbIdle
    /\ \E model \in TrackedModels : tracker = TrackerScope("entered", model)

\* llm_tracker.py record, lines 101-120: the counters are overwritten
TrackerRecord ==
    /\ tracker.phase = "entered"
    /\ tracker.recorded < MaxRecords
    /\ \E usage \in Usages, cached_tokens \in {0, 200} :
         tracker' = [tracker EXCEPT !.input_tokens = usage.input_tokens,
                                    !.output_tokens = usage.output_tokens,
                                    !.cached_tokens = cached_tokens,
                                    !.recorded = tracker.recorded + 1]
    /\ UNCHANGED <<msgPatterns, agentConfig, pc, http, node, state, execStatus,
                   execWrites, execError, response, metaHandoff, llmCalls, ragRows,
                   toolRows, llmRows, tokenTracker, execTokens, execCost, faults,
                   deadlineExceeded, rag, memory, database>>

\* llm_tracker.py __aexit__, lines 75-99: the body has ended, normally or by an
\* exception; the row is saved (a failure to save is swallowed by _save_to_db) and
\* False is returned, so the exception is not suppressed
TrackerExit ==
    /\ tracker.phase = "entered"
    /\ \E exc \in Exceptions \cup {"None"}, db \in DbOutcomes :
         /\ llmRows' = save_to_db(llmRows,
                           aexit_row(node, tracker.model,
                                     [input_tokens  |-> tracker.input_tokens,
                                      output_tokens |-> tracker.output_tokens,
                                      cached_tokens |-> tracker.cached_tokens],
                                     exc # "None"),
                           db)
         /\ faults' = faults \cup Fault("llm_calls", db)
         /\ tracker' = [tracker EXCEPT !.phase = "left", !.exc = exc,
                                       !.propagated = exc]
    /\ UNCHANGED <<msgPatterns, agentConfig, pc, http, node, state, execStatus,
                   execWrites, execError, response, metaHandoff, llmCalls, ragRows,
                   toolRows, tokenTracker, execTokens, execCost, deadlineExceeded, rag,
                   memory, database>>

TrackerNext ==
    \/ TrackerRecord
    \/ TrackerExit

TrackerSpec == TrackerInit /\ [][TrackerNext]_vars

----------------------------------------------------------------------------
\* get_or_create_summary on its own (conversation_memory.py), for conversations
\* with and without a stored summary.

\* Numbers of messages a conversation may hold when the function is called
MessageCounts == {1, 4, 5, 9, 14, 15, 20}

\* Ages in hours a stored summary may have
SummaryAges == {1, 24, 25}

\* A stored summary was made at a message count the conversation has passed or is at
SummaryInit ==
    /\ RagEntry
    /\ rag = RagIdle
    /\ tracker = TrackerIdle
    /\ database = DbIdle
    /\ \E messages \in MessageCounts :
         \E summary \in {NoSummary}
                \cup { Summary(m, a) : m \in {c \in MessageCounts : c <= messages},
                                       a \in SummaryAges } :
            memory = Conversation("called", summary, messages)

\* conversation_memory.py get_or_create_summary lines 83-162, with generate_summary
\* (the call in its tracker scope) and save_summary; every exception is caught and
\* answered with None
GetOrCreateSummary ==
    /\ memory.phase = "called"
    /\ \E db_load \in DbOutcomes, llm_ok \in BOOLEAN, usage \in Usages,
          db_llm \in DbOutcomes, db_save \in DbOutcomes :
         LET decision == summary_decision(memory.summary, memory.messages)
         IN  IF db_load # "ok"
             THEN /\ memory' = [memory EXCEPT !.phase = "returned", !.returned = "None"]
                  /\ faults' = faults \cup Fault("load_summary", db_load)
                  /\ UNCHANGED <<llmCalls, llmRows>>
             ELSE IF decision # "generate"
             THEN /\ memory' = [memory EXCEPT
                                  !.phase = "returned",
                                  !.returned = IF decision = "cached" THEN "cached"
                                               ELSE "None"]
                  /\ UNCHANGED <<llmCalls, llmRows, faults>>
             ELSE /\ llmCalls' = Append(llmCalls, [node |-> "summarization",
                                                   prompt |-> {"summarization_prompt"},
                                                   ok |-> llm_ok])
                  /\ llmRows' = save_to_db(llmRows,
                                    llm_call_row("summarization", "gpt-5-mini", llm_ok, usage),
                                    db_llm)
                  /\ faults' = faults \cup Fault("llm_calls", db_llm)
                                 \cup (IF llm_ok THEN Fault("save_summary", db_save) ELSE {})
                  /\ memory' = [memory EXCEPT
                                  !.phase = "returned",
                                  !.returned = IF llm_ok THEN "new" ELSE "None",
                                  !.summary = IF llm_ok
                                              THEN save_summary(memory.summary,
                                                                memory.messages, db_save)
                                              ELSE memory.summary]
    /\ UNCHANGED <<msgPatterns, agentConfig, pc, http, node, state, execStatus,
                   execWrites, execError, response, metaHandoff, ragRows, toolRows,
                   tokenTracker, execTokens, execCost, deadlineExceeded, rag, tracker, database>>

SummaryNext == GetOrCreateSummary

SummarySpec == SummaryInit /\ [][SummaryNext]_vars

----------------------------------------------------------------------------
\* respond_node on its own (respond.py), for every confidence and either value of
\* the orchestrator's flag.

\* Confidence values of the state respond_node is given, in hundredths
Confidences == 0..100

\* respond.py lines 9-25: the node is entered with the state of the turn
RespondInit ==
    /\ msgPatterns = {}
    /\ agentConfig = "enabled"
    /\ pc = "running"
    /\ http = 0
    /\ node = "respond"
    /\ \E confidence \in Confidences, suggest_handoff \in BOOLEAN,
          docs \in {0, 2}, needs_kb \in BOOLEAN :
         state = [create_initial_state EXCEPT
                    !.confidence = confidence,
                    !.confidence_set = TRUE,
                    !.suggest_handoff_in_response = suggest_handoff,
                    !.retrieved_docs = docs,
                    !.needs_knowledge_base = needs_kb]
    /\ llmCalls = <<>>
    /\ execStatus = "active"
    /\ execWrites = 0
    /\ execError = "None"
    /\ response = "none"
    /\ metaHandoff = FALSE
    /\ ragRows = 0
    /\ toolRows = 0
    /\ llmRows = <<>>
    /\ tokenTracker = 0
    /\ execTokens = 0
    /\ execCost = 0
    /\ faults = {}
    /\ deadlineExceeded = FALSE
    /\ rag = RagIdle
    /\ tracker = TrackerIdle
    /\ memory = MemoryIdle
    /\ database = DbIdle

RespondNext == Respond

RespondSpec == RespondInit /\ [][RespondNext]_vars

----------------------------------------------------------------------------
\* get_connection_pool called from several threads before the pool exists
\* (database.py).  The test of _pool_lock (line 29) and its assignment (line 33)
\* are separate statements, so another thread may run between them.

\* Everything outside the database module, as at the entry of a node
dbFrame == <<msgPatterns, agentConfig, pc, http, node, state, execStatus, execWrites,
             execError, response, metaHandoff, llmCalls, ragRows, toolRows, llmRows,
             tokenTracker, execTokens, execCost, faults, deadlineExceeded, rag,
             tracker, memory>>

\* database.py lines 9-11: the module has just been imported
PoolInit ==
    /\ RagEntry
    /\ rag = RagIdle
    /\ tracker = TrackerIdle
    /\ memory = MemoryIdle
    /\ database = DbModule("pool_creation", "None")

\* database.py line 27 (and line 60 when the pool exists): a thread calls the function
EnterGetConnectionPool(t) ==
    /\ database.phase = "pool_creation"
    /\ database.callers[t].at \in {"idle", "done"}
    /\ database' = [database EXCEPT !.callers[t] =
                      IF database.connection_pool # "None"
                      THEN [at |-> "done", attempt |-> 0, result |-> database.connection_pool]
                      ELSE Caller("test_lock")]
    /\ UNCHANGED dbFrame

\* database.py line 29
TestPoolLock(t) ==
    /\ database.callers[t].at = "test_lock"
    /\ database' = [database EXCEPT !.callers[t].at =
                      IF database.pool_lock THEN "sleeping" ELSE "set_lock"]
    /\ UNCHANGED dbFrame

\* database.py lines 30-31: after the sleep the global is returned as it is
SleepAndReturn(t) ==
    /\ database.callers[t].at = "sleeping"
    /\ database' = [database EXCEPT !.callers[t].at = "done",
                                    !.callers[t].result = database.connection_pool]
    /\ UNCHANGED dbFrame

\* database.py line 33
SetPoolLock(t) ==
    /\ database.callers[t].at = "set_lock"
    /\ database' = [database EXCEPT !.pool_lock = TRUE,
                                    !.callers[t].at = "creating",
                                    !.callers[t].attempt = 1]
    /\ UNCHANGED dbFrame

\* database.py lines 37-56: one attempt to create the pool; the third failure is
\* re-raised from inside the loop, before line 58
CreatePool(t) ==
    /\ database.callers[t].at = "creating"
    /\ \E created \in BOOLEAN :
         database' =
           IF created
           THEN [database EXCEPT !.connection_pool = "pool",
                                 !.callers[t].at = "unlock"]
           ELSE IF database.callers[t].attempt < 3
           THEN [database EXCEPT !.callers[t].attempt = @ + 1]
           ELSE [database EXCEPT !.callers[t].at = "done",
                                 !.callers[t].result = "raised"]
    /\ UNCHANGED dbFrame

\* database.py lines 58-60
ReleasePoolLock(t) ==
    /\ database.callers[t].at = "unlock"
    /\ database' = [database EXCEPT !.pool_lock = FALSE,
                                    !.callers[t].at = "done",
                                    !.callers[t].result = database.connection_pool]
    /\ UNCHANGED dbFrame

PoolNext ==
    \E t \in Threads :
        \/ EnterGetConnectionPool(t)
        \/ TestPoolLock(t)
        \/ SleepAndReturn(t)
        \/ SetPoolLock(t)
        \/ CreatePool(t)
        \/ ReleasePoolLock(t)

PoolSpec == PoolInit /\ [][PoolNext]_vars

----------------------------------------------------------------------------
\* The scopes of one turn that take a connection from the pool (database.py,
\* rag_metrics.py, knowledge_base.py, agent_config.py), with every way their body
\* can end.

\* Number of scopes a turn opens
MaxScopes == 3

\* The turn starts with the pool created and no connection of its own
ScopeInit ==
    /\ RagEntry
    /\ rag = RagIdle
    /\ tracker = TrackerIdle
    /\ memory = MemoryIdle
    /\ database = [DbModule("scopes", "pool") EXCEPT !.turn = "running"]

\* The scope on top of the stack
TopScope == database.held[Len(database.held)]

\* database.py get_db_connection lines 74-92 at the entry of a scope: the
\* connection is taken, or the pool stays exhausted for 5 s and the call raises.
\* create_default_config is entered from inside the scope of get_config
\* (agent_config.py line 27); every other scope is entered with none open.
EnterScope ==
    /\ database.phase = "scopes" /\ database.turn = "running" /\ ~database.exc
    /\ database.scopes_run < MaxScopes
    /\ \E site \in Sites, got \in {"conn", "exhausted"} :
         /\ IF site.name = "create_default_config"
            THEN /\ database.held # <<>>
                 /\ TopScope.site.name = "get_config"
                 /\ TopScope.at = "try"
            ELSE database.held = <<>>
         /\ database' =
              IF got = "conn"
              THEN [database EXCEPT
                      !.held = Append(@, [site |-> site,
                                          at |-> IF site.shape \in {"cursor_try_finally",
                                                                    "cursor_try_except"}
                                                 THEN "acquired" ELSE "try"]),
                      !.scopes_run = @ + 1]
              ELSE [database EXCEPT !.exc = TRUE, !.scopes_run = @ + 1]
    /\ UNCHANGED dbFrame

\* rag_metrics.py line 53, knowledge_base.py line 173: the cursor is created
\* between the acquisition and the try; creating a cursor on a connection the pool
\* handed out does no I/O
CreateCursor ==
    /\ database.phase = "scopes" /\ database.held # <<>>
    /\ TopScope.at = "acquired"
    /\ database' = [database EXCEPT !.held[Len(database.held)].at = "try"]
    /\ UNCHANGED dbFrame

\* The body of the scope on top ends and the scope is left; an exception coming
\* out of a nested scope ends the body as an exception
ExitScope ==
    /\ database.phase = "scopes" /\ database.held # <<>>
    /\ TopScope.at = "try"
    /\ \E outcome \in ScopeOutcomes, commit_ok \in BOOLEAN, rollback_ok \in BOOLEAN :
         /\ database.exc => outcome = "exception"
         /\ LET exit == scope_exit(TopScope.site, outcome, commit_ok, rollback_ok)
            IN  database' = [database EXCEPT
                               !.held = SubSeq(@, 1, Len(@) - 1),
                               !.leaked = IF exit.returned THEN @ ELSE @ + 1,
                               !.exc = exit.raises,
                               !.exits = @ \cup {outcome}]
    /\ UNCHANGED dbFrame

\* An exception that has left every scope is caught by the caller of the scope, or
\* ends the turn
HandleException ==
    /\ database.phase = "scopes" /\ database.turn = "running"
    /\ database.exc /\ database.held = <<>>
    /\ \E caught \in BOOLEAN :
         database' = [database EXCEPT !.exc = FALSE,
                                      !.turn = IF caught THEN "running" ELSE "raised"]
    /\ UNCHANGED dbFrame

\* The turn returns
ReturnTurn ==
    /\ database.phase = "scopes" /\ database.turn = "running"
    /\ ~database.exc /\ database.held = <<>>
    /\ database' = [database EXCEPT !.turn = "returned"]
    /\ UNCHANGED dbFrame

ScopeNext ==
    \/ EnterScope
    \/ CreateCursor
    \/ ExitScope
    \/ HandleException
    \/ ReturnTurn

ScopeSpec == ScopeInit /\ [][ScopeNext]_vars

----------------------------------------------------------------------------
\* Helpers of the properties

InVisited(n) == \E i \in 1..Len(state.nodes_visited) : state.nodes_visited[i] = n

TimesVisited(n) == Cardinality({i \in 1..Len(state.nodes_visited) : state.nodes_visited[i] = n})

TurnOver == pc \in {"returned", "raised"}

CallsOf(n) == SelectSeq(llmCalls, LAMBDA c : c.node = n)

\* retrieved_docs is empty and needs_knowledge_base is true
KnowledgeMissing == state.retrieved_docs = 0 /\ state.needs_knowledge_base

\* The edges a traversal may follow, as C5 lists them
ClaimedEdges ==
    { <<"smart_router", "respond">>, <<"smart_router", "orchestrator">>,
      <<"orchestrator", "handoff">>, <<"orchestrator", "greet">>,
      <<"orchestrator", "optimized_rag">>, <<"orchestrator", "respond">>,
      <<"greet", "respond">>, <<"optimized_rag", "respond">>,
      <<"respond", "validate_response">>, <<"validate_response", "retry_respond">> }

----------------------------------------------------------------------------
\* Properties

\* C1: the execution record is created active when Chat starts, and once its status
\* is one of completed, failed or handoff no later step of the turn changes it.
C1_StatusWrittenOnce ==
    [][ /\ (pc = "idle" /\ pc' = "running" => execStatus' = "active")
        /\ (execStatus \in TerminalStatuses => execStatus' = execStatus) ]_vars

\* C2: a turn in which the handoff node ran has status handoff on its execution
\* record when Chat returns.
C2_HandoffTurnEndsHandoff ==
    (pc = "returned" /\ InVisited("handoff")) => execStatus = "handoff"

\* C3: when Chat has returned or raised, the execution record it created holds a
\* terminal status; it is never left active.
C3_TerminalStatusAtEnd ==
    (TurnOver /\ execStatus # "none") => execStatus \in TerminalStatuses

\* C4: when the smart router matches request_human the turn goes from smart_router
\* directly to handoff: respond is not executed and nodes_visited ends as
\* [smart_router, handoff].
C4_FastPathHandoff ==
    detected_intent(msgPatterns) = "request_human" =>
        /\ ~InVisited("respond")
        /\ (pc = "returned" => state.nodes_visited = <<"smart_router", "handoff">>)

\* C5: nodes_visited always starts with smart_router, lists no node twice and every
\* later element is the target of a listed edge from the element before it.
C5_PrefixValidTraversal ==
    LET nv == state.nodes_visited IN
    /\ (nv # <<>> => nv[1] = "smart_router")
    /\ \A i \in 2..Len(nv) : <<nv[i - 1], nv[i]>> \in ClaimedEdges
    /\ \A i, j \in 1..Len(nv) : nv[i] = nv[j] => i = j

C5_Witness ==
    state.nodes_visited = <<"smart_router", "orchestrator", "optimized_rag", "respond",
                            "validate_response", "retry_respond">>

\* C6: validate_response runs in a turn exactly when respond ran with confidence
\* below 0.75; with confidence 0.75 or more neither validate_response nor
\* retry_respond is visited.
C6_ValidationIffLowConfidence ==
    /\ InVisited("validate_response") => (InVisited("respond") /\ state.confidence < 75)
    /\ (node = "END" /\ InVisited("respond") /\ state.confidence < 75)
           => InVisited("validate_response")
    /\ (InVisited("respond") /\ state.confidence >= 75)
           => (~InVisited("validate_response") /\ ~InVisited("retry_respond"))

C6_Witness ==
    /\ pc = "returned" /\ InVisited("respond") /\ state.confidence = 75
    /\ ~InVisited("validate_response")

\* C7: retry_respond runs at most once per turn and nothing runs after it: once
\* was_retried is true the graph has ended, with no later validation or generation.
C7_RetryAtMostOnce ==
    /\ TimesVisited("retry_respond") <= 1
    /\ TimesVisited("validate_response") <= 1
    /\ state.was_retried =>
          /\ Last(state.nodes_visited) = "retry_respond"
          /\ Last(llmCalls).node = "retry_respond"
          /\ node = "END"

C7_Witness == pc = "returned" /\ state.was_retried /\ InVisited("retry_respond")

\* C8: the step after the orchestrator is handoff exactly when should_handoff is true
\* or confidence is below 0.4; once handoff ran the graph has ended and respond was
\* not executed.
C8_ForceHandoffRouting ==
    /\ [][ (pc = "running" /\ node = "orchestrator")
             => (node' = "handoff" <=> (state'.should_handoff \/ state'.confidence < 40)) ]_vars
    /\ [](InVisited("handoff") => (~InVisited("respond") /\ node = "END"))

C8_Witness ==
    /\ pc = "returned" /\ ~state.should_handoff /\ state.confidence = 35
    /\ state.nodes_visited = <<"smart_router", "orchestrator", "handoff">>

\* C9: every generation call that produces the reply of the turn - the respond call,
\* and the retry call when it replaces the reply - carries the anti-hallucination
\* instruction exactly when retrieved_docs is empty and needs_knowledge_base is true.
C9_GuardrailOnFinalGeneration ==
    pc = "returned" =>
        \A i \in 1..Len(llmCalls) :
            (llmCalls[i].node = "respond" \/ (llmCalls[i].node = "retry_respond" /\ llmCalls[i].ok))
                => ("anti_hallucination" \in llmCalls[i].prompt <=> KnowledgeMissing)

\* C10: when validation of the reply failed and the retry call succeeded, Chat
\* returns the improved reply and was_retried is true.
C10_RetryReplyReturned ==
    (pc = "returned" /\ ~state.validation_passed
       /\ CallsOf("retry_respond") # <<>> /\ Last(llmCalls).ok)
        => (response = "improved_reply" /\ state.was_retried)

C10_Witness ==
    /\ pc = "returned" /\ ~state.validation_passed
    /\ CallsOf("retry_respond") # <<>> /\ Last(llmCalls).ok
    /\ response = "improved_reply"

\* The respond call of the turn raised
RespondFailed == \E i \in 1..Len(llmCalls) : llmCalls[i].node = "respond" /\ ~llmCalls[i].ok

\* C11: when the respond LLM call fails, respond appends exactly one assistant
\* message, the fixed graceful-degradation text, and the graph goes on; the turn
\* completes: the graph never raises, Chat returns a reply with the record not
\* failed, and Chat raises only if the final database scope cannot be opened.
C11_RespondFailureDegrades ==
    [][ /\ (pc = "running" /\ node = "respond" /\ ~Last(llmCalls').ok) =>
              /\ state'.messages =
                    Append(state.messages,
                           [AIMessage("graceful_error") EXCEPT !.id = MaxId(state.messages) + 1])
              /\ node' \in {"END", "validate_response"}
        /\ RespondFailed' =>
              /\ node' # "RAISED"
              /\ pc' = "returned" =>
                    /\ response' \in {"graceful_error", "improved_reply"}
                    /\ execStatus' # "failed"
                    /\ http' = 200
              /\ pc' = "raised" => "final_update" \in faults' ]_vars

C11_Witness ==
    /\ pc = "returned" /\ RespondFailed
    /\ response = "graceful_error" /\ execStatus = "completed" /\ http = 200

\* C12: when the graph run raises, Chat raises to its caller instead of returning a
\* reply (the route answers 500), and the UPDATE of the except branch moves the
\* execution record from active to failed with the error text recorded.
C12_GraphErrorMarksFailed ==
    [][ (pc = "running" /\ node = "RAISED") =>
           /\ pc' = "raised" /\ response' = "none" /\ http' = 500
           /\ execStatus = "active"
           /\ "mark_failed" \notin faults' =>
                 (execStatus' = "failed" /\ execError' = "error_text") ]_vars

C12_Witness ==
    /\ pc = "raised" /\ node = "RAISED" /\ response = "none" /\ http = 500
    /\ execStatus = "failed" /\ execError = "error_text"

\* C13: a turn that runs past the turn-level deadline is cancelled: it does not
\* return a reply, and its execution record is failed with error deadline_exceeded.
C13_DeadlineCancelsTurn ==
    (deadlineExceeded /\ TurnOver) =>
        /\ pc = "raised" /\ response = "none"
        /\ execStatus = "failed" /\ execError = "deadline_exceeded"

\* The database scopes that only persist tracking records: ai.llm_calls,
\* ai.tool_executions and ai.rag_metrics
TrackingSites == {"llm_calls", "tool_executions", "rag_metrics"}

\* C14: a failure while persisting an LLM call record, a tool-execution record or a
\* RAG metrics record, a failure to obtain the connection included, never
\* propagates: when these writes are the only ones that failed, no node raises,
\* Chat does not raise and the execution is not marked failed.
C14_TrackingFailuresSwallowed ==
    faults \subseteq TrackingSites =>
        (node # "RAISED" /\ pc # "raised" /\ execStatus # "failed")

RECURSIVE SumTotalCost(_)
\* Sum of total_cost over rows of ai.llm_calls
SumTotalCost(rows) ==
    IF rows = <<>> THEN 0 ELSE Head(rows).total_cost + SumTotalCost(Tail(rows))

RECURSIVE SumTotalTokens(_)
\* Sum of total_tokens over rows of ai.llm_calls
SumTotalTokens(rows) ==
    IF rows = <<>> THEN 0 ELSE Head(rows).total_tokens + SumTotalTokens(Tail(rows))

\* C15: for a completed execution the cost on the execution record is at least the
\* sum of total_cost over the LLM call records written for it, up to the rounding of
\* each record to 8 decimals, and tokens_used covers the records' tokens.
C15_ExecutionCostAggregates ==
    execStatus = "completed" =>
        /\ SumTotalCost(llmRows) <= execCost + 10 * Len(llmRows)
        /\ SumTotalTokens(llmRows) <= execTokens

\* The message takes the greeting, farewell or thanks fast path
SimpleFastPath == detected_intent(msgPatterns) \in {"greeting", "farewell", "thanks"}

\* C16: a turn whose message matches a greeting, farewell or thanks pattern visits
\* exactly smart_router then respond - orchestrator, optimized_rag,
\* validate_response and retry_respond never run - and issues exactly one LLM call,
\* the responder's.
C16_SimpleFastPathTraversal ==
    SimpleFastPath =>
        /\ \A n \in {"orchestrator", "optimized_rag", "validate_response",
                     "retry_respond", "greet", "handoff"} : ~InVisited(n)
        /\ \A i \in 1..Len(llmCalls) : i = 1 /\ llmCalls[i].node = "respond"
        /\ node = "END" =>
              /\ state.nodes_visited = <<"smart_router", "respond">>
              /\ Len(llmCalls) = 1
        /\ Len(llmRows) <= 1

C16_Witness ==
    /\ pc = "returned" /\ detected_intent(msgPatterns) = "thanks"
    /\ state.nodes_visited = <<"smart_router", "respond">>
    /\ Len(llmCalls) = 1 /\ llmCalls[1].node = "respond" /\ response = "reply"

\* The business had no row of ai.agent_config when the request arrived
ConfigWasMissing == agentConfig \in {"missing", "default_created"}

\* C17: Chat for a business that has no agent configuration fails with NotFound
\* (404): no graph node runs and no reply is produced for the request.
C17_MissingConfigNotFound ==
    (ConfigWasMissing /\ faults = {}) =>
        /\ http \in {0, 404}
        /\ state.nodes_visited = <<>>
        /\ response = "none"

AfterOrchestrator ==
    /\ pc = "running" /\ node # "RAISED"
    /\ state.nodes_visited # <<>> /\ Last(state.nodes_visited) = "orchestrator"

\* The orchestrator's decision forces a handoff
ForcedHandoff == state.should_handoff \/ state.confidence < 40

\* C19, greet ahead of retrieval: on a first message without forced handoff the
\* node after the orchestrator is greet even when needs_knowledge_base is true;
\* optimized_rag follows the orchestrator only when is_first_message is false and
\* needs_knowledge_base is true.
C19_GreetBeforeRetrieval ==
    AfterOrchestrator =>
        /\ (state.is_first_message /\ ~ForcedHandoff) => node = "greet"
        /\ node = "optimized_rag" =>
              (~state.is_first_message /\ state.needs_knowledge_base)

\* C19, retrieval ahead of greet (the order route_after_orchestrator documents):
\* without forced handoff the node after the orchestrator is optimized_rag exactly
\* when needs_knowledge_base is true, on a first message too and also with
\* confidence in [0.4, 0.6); greet follows exactly when is_first_message is true
\* and needs_knowledge_base is false.
C19_RetrievalBeforeGreet ==
    (AfterOrchestrator /\ ~ForcedHandoff) =>
        /\ node = "optimized_rag" <=> state.needs_knowledge_base
        /\ node = "greet" <=> (state.is_first_message /\ ~state.needs_knowledge_base)
        /\ node \in {"optimized_rag", "greet", "respond"}

C19_Witness ==
    /\ AfterOrchestrator /\ ~ForcedHandoff
    /\ state.is_first_message /\ state.needs_knowledge_base /\ state.confidence = 50
    /\ node = "optimized_rag"

\* The routing_decision the specification derives from the decision in the state
ClaimedRoutingDecision ==
    IF state.should_handoff \/ state.confidence < 40 THEN "force_handoff"
    ELSE IF state.confidence < 60 THEN "suggest_handoff"
    ELSE IF state.is_first_message THEN "greet"
    ELSE IF state.needs_knowledge_base THEN "retrieve_knowledge"
    ELSE "direct_respond"

\* The graph node a recorded routing_decision names
BranchNamed(rd) ==
    CASE rd = "force_handoff" -> "handoff"
      [] rd = "greet" -> "greet"
      [] rd = "retrieve_knowledge" -> "optimized_rag"
      [] rd = "direct_respond" -> "respond"
      [] OTHER -> "None"

\* C20: for every decision the orchestrator received from its LLM, the
\* routing_decision in the state is force_handoff if should_handoff or confidence <
\* 0.4, else suggest_handoff if confidence < 0.6, else greet if is_first_message,
\* else retrieve_knowledge if needs_knowledge_base, else direct_respond; and a
\* recorded branch name is the branch the graph takes after the orchestrator.
C20_RoutingDecisionRecorded ==
    (InVisited("orchestrator") /\ CallsOf("orchestrator")[1].ok) =>
        /\ state.routing_decision = ClaimedRoutingDecision
        /\ (AfterOrchestrator /\ BranchNamed(state.routing_decision) # "None")
              => node = BranchNamed(state.routing_decision)

\* The orchestrator's LLM call or the parsing of its answer failed in this turn
OrchestratorFailed ==
    \E i \in 1..Len(llmCalls) : llmCalls[i].node = "orchestrator" /\ ~llmCalls[i].ok

\* C21: when the orchestrator's LLM call or JSON parsing fails the node applies the
\* conservative fallback (intent question, confidence 0.4, needs_knowledge_base
\* true, strategy broad, search_queries the original message, should_handoff
\* false) and the turn goes on without handoff: optimized_rag is next, respond
\* follows it, and Chat returns a reply; the turn ends by exception only when the
\* RAG metrics scope or the final database scope cannot obtain a connection.
C21_OrchestratorFallback ==
    [][ /\ (pc = "running" /\ node = "orchestrator" /\ ~Last(llmCalls').ok) =>
              /\ state'.intent = "question" /\ state'.confidence = 40
              /\ state'.needs_knowledge_base /\ state'.kb_search_strategy = "broad"
              /\ state'.search_queries = <<"user_message">>
              /\ ~state'.should_handoff
              /\ node' = "optimized_rag"
        /\ OrchestratorFailed' =>
              /\ ~InVisited("handoff")' /\ node' # "handoff"
              /\ node' = "RAISED" => "rag_metrics" \in faults'
              /\ (InVisited("respond")' \/ node' = "respond") =>
                    /\ Len(state'.nodes_visited) >= 3
                    /\ SubSeq(state'.nodes_visited, 1, 3) =
                          <<"smart_router", "orchestrator", "optimized_rag">>
              /\ pc' = "returned" =>
                    /\ InVisited("optimized_rag")' /\ InVisited("respond")'
                    /\ response' \in {"reply", "graceful_error", "improved_reply"}
                    /\ http' = 200
              /\ pc' = "raised" => faults' \cap {"rag_metrics", "final_update"} # {} ]_vars

C21_Witness ==
    /\ pc = "returned" /\ OrchestratorFailed /\ response = "reply" /\ ~metaHandoff
    /\ state.search_queries = <<"user_message">>
    /\ SubSeq(state.nodes_visited, 1, 4) =
          <<"smart_router", "orchestrator", "optimized_rag", "respond">>

\* The validator call of the turn raised
ValidatorFailed ==
    \E i \in 1..Len(llmCalls) : llmCalls[i].node = "validate_response" /\ ~llmCalls[i].ok

\* C22: when the validator call raises, validate_response sets validation_passed =
\* true and quality_score = 0.8 and leaves the messages alone, the graph ends
\* without running retry_respond, and Chat returns the reply respond produced.
C22_ValidatorFailsOpen ==
    [][ /\ (pc = "running" /\ node = "validate_response" /\ ~Last(llmCalls').ok) =>
              /\ state'.validation_passed /\ state'.quality_score = 80
              /\ ~state'.was_retried
              /\ state'.messages = state.messages
              /\ Last(state.messages).type = "ai"
              /\ Last(state.messages).content \in {"reply", "graceful_error"}
              /\ node' = "END"
        /\ ValidatorFailed' =>
              /\ ~InVisited("retry_respond")' /\ node' # "retry_respond"
              /\ CallsOf("retry_respond")' = <<>>
              /\ pc' = "returned" =>
                    /\ response' = Last(state'.messages).content
                    /\ response' \in {"reply", "graceful_error"} ]_vars

C22_Witness ==
    /\ pc = "returned" /\ ValidatorFailed
    /\ state.validation_passed /\ state.quality_score = 80
    /\ Last(state.nodes_visited) = "validate_response" /\ response = "reply"

\* The retry call of the turn raised
RetryFailed ==
    \E i \in 1..Len(llmCalls) : llmCalls[i].node = "retry_respond" /\ ~llmCalls[i].ok

\* C23: when the retry LLM call fails, retry_respond leaves messages unchanged and
\* sets was_retried = true; the graph ends, Chat returns the original reply and the
\* final UPDATE, when it succeeds, leaves the execution completed.
C23_RetryFailureKeepsReply ==
    [][ /\ (pc = "running" /\ node = "retry_respond" /\ ~Last(llmCalls').ok) =>
              /\ state'.messages = state.messages
              /\ state'.was_retried
              /\ node' = "END"
        /\ RetryFailed' =>
              /\ node' = "END"
              /\ Last(state'.messages).content \in {"reply", "graceful_error"}
              /\ pc' = "returned" =>
                    /\ response' = Last(state'.messages).content
                    /\ http' = 200
                    /\ execStatus' # "failed"
                    /\ "final_update" \notin faults' => execStatus' = "completed"
              /\ pc' = "raised" => "final_update" \in faults' ]_vars

C23_Witness ==
    /\ pc = "returned" /\ RetryFailed /\ state.was_retried /\ ~state.validation_passed
    /\ response = "reply" /\ execStatus = "completed"
    /\ Len(SelectType(state.messages, "ai")) = 1

\* a is a prefix of b
IsPrefix(a, b) == Len(a) <= Len(b) /\ SubSeq(b, 1, Len(a)) = a

C25_HandoffFlagIffNodeRan ==
    pc = "returned" => (metaHandoff <=> InVisited("handoff"))

\* The orchestrator's call and the parsing of its answer succeeded in this turn
OrchestratorAnswered ==
    \E i \in 1..Len(llmCalls) : llmCalls[i].node = "orchestrator" /\ llmCalls[i].ok

\* C26: the state of a turn holds exactly one human message, so is_first_message
\* is true whenever the smart router (on a fast path) or the orchestrator (on an
\* answered call) computed it, and the edge from orchestrator to respond is never
\* taken: after the orchestrator the turn continues to handoff, optimized_rag or
\* greet.
C26_SingleHumanMessage ==
    /\ Len(SelectType(state.messages, "human")) = 1
    /\ (InVisited("smart_router") /\ ~state.use_full_orchestrator) => state.is_first_message
    /\ OrchestratorAnswered => state.is_first_message
    /\ AfterOrchestrator => node \in {"handoff", "optimized_rag", "greet"}
    /\ \A i \in 2..Len(state.nodes_visited) :
          state.nodes_visited[i - 1] = "orchestrator" =>
              state.nodes_visited[i] \in {"handoff", "optimized_rag", "greet"}

C26_Witness ==
    /\ pc = "returned" /\ OrchestratorAnswered /\ state.is_first_message
    /\ ~state.needs_knowledge_base /\ state.confidence = 90
    /\ state.nodes_visited = <<"smart_router", "orchestrator", "greet", "respond">>

\* The request has been answered: rejected by the route, or Chat returned or raised
RequestSettled == pc \in {"rejected", "returned", "raised"}

\* C27: when every LLM and database call eventually returns or raises, every turn
\* terminates; the graph has no cycle: a turn executes at most 6 nodes, each at
\* most once.
C27_TurnTerminates ==
    /\ [](/\ Len(state.nodes_visited) <= 6
          /\ \A i, j \in 1..Len(state.nodes_visited) :
                state.nodes_visited[i] = state.nodes_visited[j] => i = j)
    /\ <>[]RequestSettled

C27_Witness ==
    /\ pc = "returned" /\ Len(state.nodes_visited) = 6
    /\ Last(state.nodes_visited) = "retry_respond"

----------------------------------------------------------------------------
\* The searches of the fan-out that ended with rows
SucceededSearches == SelectSeq(rag.results, LAMBDA r : r.status = "ok")

\* The results of the fan-out with every failed search replaced by an empty answer
FailedAsEmpty ==
    [i \in 1..Len(rag.results) |->
        IF rag.results[i].status = "failed" THEN Found(<<>>) ELSE rag.results[i]]

AllSearchesFailed ==
    /\ rag.results # <<>>
    /\ \A i \in 1..Len(rag.results) : rag.results[i].status = "failed"

\* C29: in the fan-out of optimized_rag (at most 3 searches) a search that fails
\* leaves the other searches' results as they were and the fan-out going; the merged
\* list is the merge of the results of the searches that succeeded, a failed search
\* counting as an empty result, whatever order the searches completed in; when all
\* fail the merged list is empty and the node still returns its update and hands the
\* turn to respond (the metrics write that follows succeeding).
C29_FailedSearchIsolated ==
    [][ /\ Len(rag'.results) <= 3
        /\ \A i \in 1..Len(rag.results) :
             (rag.results[i].status = "pending" /\ rag'.results[i].status = "failed")
                => /\ rag'.phase = "searching"
                   /\ ~rag'.raised
                   /\ Len(rag'.results) = Len(rag.results)
                   /\ \A j \in 1..Len(rag.results) :
                        j # i => rag'.results[j] = rag.results[j]
        /\ (rag.phase = "searching" /\ rag'.phase = "merged")
              => /\ rag'.chunks = multi_query_merge(SucceededSearches)
                 /\ rag'.chunks = multi_query_merge(FailedAsEmpty)
                 /\ AllSearchesFailed => rag'.chunks = <<>>
                 /\ ~rag'.raised
        /\ (/\ AllSearchesFailed
            /\ rag.phase # "returned" /\ rag'.phase = "returned"
            /\ "rag_metrics" \notin faults')
              => /\ node' = "respond"
                 /\ Last(state'.nodes_visited) = "optimized_rag"
      ]_vars

\* All three searches have completed, not in the order they were started, one of
\* them failed, and the merged list holds the chunks of the other two
C29_Witness ==
    /\ rag.phase = "merged"
    /\ Len(rag.results) = 3
    /\ rag.completed = <<3, 1, 2>>
    /\ rag.results[1].status = "failed"
    /\ rag.results[2].status = "ok" /\ rag.results[3].status = "ok"
    /\ Len(rag.chunks) >= 4

----------------------------------------------------------------------------
\* The chunks the searches that succeeded returned, over all queries
ReturnedChunks ==
    UNION { { rag.results[i].chunks[n] : n \in 1..Len(rag.results[i].chunks) } :
            i \in { q \in 1..Len(rag.results) : rag.results[q].status = "ok" } }

\* C30: the merged list made from the per-query results holds at most one chunk per
\* (document_id, chunk_index) key (and one for every key returned), that chunk
\* carrying the highest combined_score any query returned for the key, and the list
\* is sorted by combined_score in descending order.
C30_MergedDedupBestSorted ==
    rag.phase = "merged" =>
        /\ \A i, j \in 1..Len(rag.chunks) :
             SameKey(rag.chunks[i], rag.chunks[j]) => i = j
        /\ \A c \in ReturnedChunks :
             \E i \in 1..Len(rag.chunks) :
                /\ SameKey(rag.chunks[i], c)
                /\ rag.chunks[i].combined_score >= c.combined_score
        /\ \A i \in 1..Len(rag.chunks) : rag.chunks[i] \in ReturnedChunks
        /\ \A i, j \in 1..Len(rag.chunks) :
             i < j => rag.chunks[i].combined_score >= rag.chunks[j].combined_score

\* Two queries returned the same chunk with different scores, the later query the
\* higher one, and the merged list holds more than one chunk
C30_Witness ==
    /\ rag.phase = "merged"
    /\ Len(rag.chunks) >= 3
    /\ \E p, q \in 1..Len(rag.results) :
         /\ p < q
         /\ \E m \in 1..Len(rag.results[p].chunks), n \in 1..Len(rag.results[q].chunks) :
              /\ SameKey(rag.results[p].chunks[m], rag.results[q].chunks[n])
              /\ rag.results[p].chunks[m].combined_score
                   < rag.results[q].chunks[n].combined_score

----------------------------------------------------------------------------
\* The step on which optimized_rag ends
RagReturns == rag.phase # "returned" /\ rag'.phase = "returned"

\* C28: every execution of optimized_rag writes exactly one RAG metrics record, also
\* when query generation, a search, reranking or the fallback search raised: a step
\* of the pipeline that raises leaves the node running, on its way to the save; no
\* record is written before the node ends; and when the node ends, its INSERT
\* succeeding, the turn has exactly one record, the node has returned its update
\* (no documents when the pipeline raised) and the turn goes on to respond.
C28_OneMetricsRecordPerExecution ==
    [][ /\ (~rag.raised /\ rag'.raised)
            => /\ rag'.phase = "raised"
               /\ node' = "optimized_rag" /\ pc' = "running"
        /\ ragRows' # ragRows => RagReturns
        /\ (RagReturns /\ "rag_metrics" \notin faults')
            => /\ ragRows = 0 /\ ragRows' = 1
               /\ Len(rag'.metrics) = 1
               /\ rag'.metrics[1].queries_executed = Len(rag.queries_generated)
               /\ node' = "respond"
               /\ Last(state'.nodes_visited) = "optimized_rag"
               /\ state'.retrieved_docs = rag.retrieved_docs
               /\ rag.raised => state'.retrieved_docs = 0
      ]_vars

\* Reranking raised (at least 5 chunks were merged, no reranking was applied), the
\* record was written and the turn is at respond
C28_Witness ==
    /\ rag.phase = "returned"
    /\ rag.raised
    /\ rag.chunks_found >= 5 /\ ~rag.reranking_applied
    /\ ragRows = 1 /\ Len(rag.metrics) = 1
    /\ node = "respond"

----------------------------------------------------------------------------
\* The step of optimized_rag that follows the merge (lines 382-393)
RerankStep == rag.phase = "merged" /\ rag'.phase \in {"reranked", "raised"}

\* The chunks handed to the reranker: the first 10 of the merged list, which is in
\* descending order of combined_score
RerankInput == Take(rag.chunks, 10)

\* The score the reranker's answer gives the i-th chunk, 0.5 when it gives none
ScoreGiven(scores, i) == IF i <= Len(scores) THEN scores[i] ELSE 50

RerankAnswerUsable(scores) ==
    \A i \in 1..Len(RerankInput) : ScoreGiven(scores, i) # NotANumber

SameChunk(a, b) == SameKey(a, b) /\ a.combined_score = b.combined_score

----------------------------------------------------------------------------
\* The reranker ran and failed: its call raised, or a score of its answer for one
\* of the chunks it was given is no number
RerankerFailed ==
    /\ rag.reranking_applied
    /\ \/ ~Last(llmCalls).ok
       \/ \E i \in 1..(IF rag.chunks_found < 10 THEN rag.chunks_found ELSE 10) :
             ScoreGiven(rag.scores, i) = NotANumber

\* The chunks were reranked: the reranker ran and did not fail
Reranked == rag.reranking_applied /\ ~RerankerFailed

\* C32: after the optional reranking a chunk is passed on to retrieved_docs exactly
\* when its combined_score is at least 0.4 and, if it was reranked, its rerank_score
\* is at least 0.5; chunks that were not reranked, because fewer than 5 were merged
\* or because the reranker failed, are never rejected on rerank score.
C32_ValidationWaivesRerankBound ==
    [][ (rag.phase = "reranked" /\ rag'.phase = "validated")
          => /\ rag'.chunks = SelectSeq(rag.chunks, LAMBDA c :
                                 /\ c.combined_score >= 40
                                 /\ Reranked => c.rerank_score >= 50)
             /\ rag'.retrieved_docs = Len(rag'.chunks)
      ]_vars

----------------------------------------------------------------------------
\* The step on which a tracker scope is left
TrackerLeft == tracker.phase = "entered" /\ tracker'.phase = "left"

\* C33: a tracker scope persists exactly one LLM call record when it is left, on
\* normal completion and when the wrapped call raised (the INSERT succeeding): no
\* record before it is left, one after; the record of a failure has error populated
\* and carries the token counts recorded so far, which are zero, and the cost zero,
\* if record() was never called; the exception goes on to the caller unchanged.
C33_TrackerScopeRecord ==
    [][ /\ llmRows' # llmRows => TrackerLeft
        /\ (TrackerLeft /\ "llm_calls" \notin faults')
             => /\ Len(llmRows') = Len(llmRows) + 1
                /\ SubSeq(llmRows', 1, Len(llmRows)) = llmRows
                /\ LET row == Last(llmRows')
                   IN  /\ row.error <=> tracker'.exc # "None"
                       /\ row.model = tracker.model
                       /\ row.input_tokens = tracker.input_tokens
                       /\ row.output_tokens = tracker.output_tokens
                       /\ row.cached_tokens = tracker.cached_tokens
                       /\ row.total_tokens = tracker.input_tokens + tracker.output_tokens
                       /\ row.total_cost = calculate_cost(tracker.model, tracker.input_tokens,
                                               tracker.output_tokens,
                                               tracker.cached_tokens).total_cost
                       /\ tracker.recorded = 0
                            => /\ row.input_tokens = 0 /\ row.output_tokens = 0
                               /\ row.total_cost = 0
        /\ TrackerLeft => tracker'.propagated = tracker'.exc
      ]_vars

\* The body called record and then raised: the scope was left by the exception,
\* which went on to the caller, and the one record carries the recorded counts
C33_Witness ==
    /\ tracker.phase = "left"
    /\ tracker.exc = "TimeoutError" /\ tracker.propagated = "TimeoutError"
    /\ tracker.recorded = 1
    /\ Len(llmRows) = 1
    /\ llmRows[1].error
    /\ llmRows[1].input_tokens = 1000 /\ llmRows[1].total_cost > 0

----------------------------------------------------------------------------
\* C34: every outbound LLM or embedding call of a turn is made inside a tracker
\* scope, so (the INSERTs of the scopes succeeding) the turn has written as many
\* LLM call records as it has made outbound calls, after every step.
C34_EveryCallTracked ==
    "llm_calls" \notin faults => Len(llmRows) = Len(llmCalls)

----------------------------------------------------------------------------
\* C35: every model identifier the engine passes to a tracker for an outbound call
\* is a key of the pricing table: no record of the turn was priced through the
\* default for unknown models.
C35_TrackedModelsPriced ==
    \A i \in 1..Len(llmRows) : llmRows[i].model \in DOMAIN PRICING

----------------------------------------------------------------------------
\* C36: the claimed refresh criteria on the conversation as the call finds it:
\* (a) no summary and at least 5 messages, (b) at least 10 new messages since the
\* stored message_count, (c) a stored summary older than 24 hours
SummaryRefreshDue ==
    \/ ~memory.summary.exists /\ memory.messages >= 5
    \/ memory.summary.exists /\ memory.messages - memory.summary.message_count >= 10
    \/ memory.summary.exists /\ memory.summary.age_hours > 24

\* C36: get_or_create_summary, having loaded the conversation, makes its LLM call
\* exactly when one of the criteria (a), (b), (c) holds, and otherwise leaves the
\* stored summary as it was.  The code does not do this: a conversation without a
\* summary is summarised whatever its number of messages, and a stored summary
\* older than 24 hours is not refreshed while the conversation has fewer than 5
\* messages.
C36_SummaryRefreshCriteria ==
    [][(memory.phase = "called" /\ memory'.phase = "returned"
            /\ "load_summary" \notin faults')
       => /\ (Len(llmCalls') = Len(llmCalls) + 1) <=> SummaryRefreshDue
          /\ ~SummaryRefreshDue => memory'.summary = memory.summary]_vars

----------------------------------------------------------------------------
\* C37: the disclaimer blocks of the prompt respond_node sends
Disclaimers == {"disclaimer_force_handoff", "disclaimer_suggest_handoff", "disclaimer_soft"}

\* C37: a step in which respond_node sends its prompt
RespondCall == node = "respond" /\ Len(llmCalls') = Len(llmCalls) + 1

\* C37: the prompt sent in that step
RespondPromptSent == llmCalls'[Len(llmCalls')].prompt

----------------------------------------------------------------------------
\* C39: a step of smart_router_node on a turn with a user message
SmartRouterStep ==
    /\ pc = "running" /\ node = "smart_router"
    /\ Len(state'.nodes_visited) = Len(state.nodes_visited) + 1

\* C39: the fast path the pattern sets matched by the message lead to when they are
\* tested in the order greeting, farewell, thanks, request_human and the first match
\* decides
FirstInOrder ==
    IF "greeting" \in msgPatterns THEN "fast_path_greeting"
    ELSE IF "farewell" \in msgPatterns THEN "fast_path_farewell"
    ELSE IF "thanks" \in msgPatterns THEN "fast_path_thanks"
    ELSE IF "request_human" \in msgPatterns THEN "fast_path_handoff"
    ELSE "None"

\* C39: the smart router classifies the message by the first pattern set, in the
\* order greeting, farewell, thanks, request_human, that has a keyword in it; the
\* handoff is requested only when that first set is request_human, so a message
\* with a greeting keyword and a request-human keyword is a greeting without handoff.
C39_FirstPatternSetWins ==
    [][SmartRouterStep
       => IF FirstInOrder = "None"
          THEN state'.use_full_orchestrator
          ELSE /\ ~state'.use_full_orchestrator
               /\ state'.routing_decision = FirstInOrder
               /\ state'.should_handoff <=> FirstInOrder = "fast_path_handoff"
               /\ "greeting" \in msgPatterns
                     => state'.intent = "greeting" /\ ~state'.should_handoff]_vars

\* C39 witness: the router has classified a message holding a greeting keyword and
\* a request-human keyword as a greeting, without handoff
C39_Witness ==
    /\ {"greeting", "request_human"} \subseteq msgPatterns
    /\ state.nodes_visited = <<"smart_router">>
    /\ state.routing_decision = "fast_path_greeting"
    /\ state.intent = "greeting"
    /\ ~state.should_handoff

----------------------------------------------------------------------------
\* C38: connections taken from the pool by the turn and not returned to it
CheckedOut == Len(database.held) + database.leaked

----------------------------------------------------------------------------
\* C40: no call of get_connection_pool has returned None.  The code does return
\* None: to a caller that finds _pool_lock set and the pool still missing after its
\* sleep, and to every caller after three failed attempts, which leave _pool_lock
\* set for good.
C40_PoolNeverNone ==
    \A t \in Threads : database.callers[t].result # "None"

====
